---- MODULE Spec2Model ----
(***************************************************************************)
(* Zwift Voice Control: the keyboard dispatcher (src/src/keyboard.js) and  *)
(* the voice recognition session (voice.js, src/unnamed/part_001) with the *)
(* renderer handlers that connect them (src/src/renderer.js, main.js).     *)
(*                                                                         *)
(* Time is in milliseconds.  Confidence values and thresholds are in       *)
(* hundredths (0.75 is 75).  Strings that are matched character by         *)
(* character are sequences of one-character strings.                       *)
(***************************************************************************)
EXTENDS Integers, Sequences, FiniteSets, TLC

(***************************************************************************)
(* Program constants of keyboard.js.                                       *)
(***************************************************************************)
KeyPressDelay == 50
DefaultRateLimitMs == 300
MaxQueueSize == 5
MAX_HISTORY == 50
RateLimitCeiling == 2000

(***************************************************************************)
(* Bounds of the model.  The clock advances in steps of TickMs, the        *)
(* shortest delay of the program; Date.now() at startup lies further from  *)
(* the initial lastCommandTime (0) than any rate limit.                    *)
(***************************************************************************)
TickMs == KeyPressDelay
StartTime == RateLimitCeiling
BurstSubmits == 7
BurstTicks == 1
DrainSubmits == 3
DrainTicks == 14
MaxInFlight == 2
MaxExecTicks == 1
TestModeTicks == 8
\* the dispatcher treats the key as a payload; calls are told apart by their
\* submission id
Keys == {"left"}
\* a run is either a burst of many calls in a short time or few calls over a
\* time long enough for the queue to drain
Caps == {[submits |-> BurstSubmits, ticks |-> BurstTicks, results |-> 0],
         [submits |-> DrainSubmits, ticks |-> DrainTicks, results |-> 0]}
TestModeCaps == {[submits |-> BurstSubmits, ticks |-> BurstTicks, results |-> 0],
                 [submits |-> DrainSubmits, ticks |-> TestModeTicks, results |-> 0]}
\* a run of the session: a few speech results, each dispatched at most once
MaxResults == 2
SessionTicks == 8
SessionCaps == {[submits |-> MaxResults, ticks |-> SessionTicks,
                 results |-> MaxResults]}
\* the horizon, in ticks, of a run in which the dispatcher is left to drain
DrainHorizon == 3
\* the normalizer is applied to a probe at most MaxPasses times in a row
MaxPasses == 2
\* at most MaxTimers restart timers are pending at a time
MaxTimers == 3
\* at most MaxSettingsIpc set-trainer-mode messages are on their way to main
MaxSettingsIpc == 2
\* the speech results of a run in which trainer mode is switched
TrainerResults == 2

VARIABLES
  now,                \* Date.now()
  lastCommandTime,    \* keyboard.js: lastCommandTime
  commandQueue,       \* keyboard.js: commandQueue, entries {key, id}
  isProcessingQueue,  \* keyboard.js: isProcessingQueue
  commandHistory,     \* keyboard.js: commandHistory, newest first
  testMode,           \* CONFIG.testMode
  rateLimitMs,        \* CONFIG.rateLimitMs
  robotAvailable,     \* keyboard.js: robotAvailable, fixed at load time
  timers,             \* deadlines of pending setTimeout(() => processQueue())
  drainPc,            \* position of the processQueue loop: idle, sleep, exec
  drainWake,          \* deadline of the loop's pending sleep()
  calls,              \* simulateKey calls suspended in the key press
  submits,            \* history variable: every simulateKey/testKey call
  invocations,        \* history variable: every key press handed to the executor
  cap                 \* the bounds of this run

VARIABLES
  options,            \* VoiceRecognition.options
  lastTranscript,     \* VoiceRecognition.lastTranscript
  lastConfidence,     \* VoiceRecognition.lastConfidence
  commandLog,         \* VoiceRecognition.commandLog, newest first
  lastEvents,         \* events emitted by the latest result or simulation
  ipc,                \* execute-command invocations on their way to main
  handled             \* history variable: results and simulations so far

sessVars == <<options, lastTranscript, lastConfidence, commandLog, lastEvents,
              ipc, handled>>

VARIABLES
  probe,              \* a text and a confidence given to the normalizer and matcher
  answer              \* what the normalizer and the matcher have made of the probe

probeVars == <<probe, answer>>

VARIABLES
  isListening,        \* this._isListening
  recognition,        \* the state of the speech engine, "none" before initialize()
  restartAttempts,    \* this.restartAttempts
  restartTimers,      \* the restart timers that are pending, oldest first
  emitted,            \* the events emitted by the latest handler of the lifecycle
  called              \* the calls the latest handler made on the speech engine

lifeVars == <<isListening, recognition, restartAttempts, restartTimers, emitted, called>>

VARIABLES
  voiceSettings,      \* main.js: voiceSettings
  trainerModeChecked, \* renderer.js: trainerMode.checked, the checkbox of the window
  settingsIpc         \* set-trainer-mode messages sent and not yet handled by main

mainVars == <<voiceSettings, trainerModeChecked, settingsIpc>>

dispVars == <<now, lastCommandTime, commandQueue, isProcessingQueue,
              commandHistory, testMode, rateLimitMs, robotAvailable, timers,
              drainPc, drainWake, calls, submits, invocations, cap>>

vars == <<dispVars, sessVars, probeVars, mainVars, lifeVars>>

(***************************************************************************)
(* The dispatcher state as one record, so that the synchronous stretches   *)
(* of simulateKey, queueCommand and processQueue compose as functions.     *)
(***************************************************************************)
Disp ==
  [last |-> lastCommandTime, queue |-> commandQueue, proc |-> isProcessingQueue,
   history |-> commandHistory, timers |-> timers, pc |-> drainPc,
   wake |-> drainWake, calls |-> calls, submits |-> submits,
   invocations |-> invocations]

Apply(d) ==
  /\ lastCommandTime' = d.last
  /\ commandQueue' = d.queue
  /\ isProcessingQueue' = d.proc
  /\ commandHistory' = d.history
  /\ timers' = d.timers
  /\ drainPc' = d.pc
  /\ drainWake' = d.wake
  /\ calls' = d.calls
  /\ submits' = d.submits
  /\ invocations' = d.invocations

Min(a, b) == IF a < b THEN a ELSE b

\* logCommand without the pop
LogCommandUnbounded(h, entry) == <<entry>> \o h

\* logCommand: unshift, then pop when longer than MAX_HISTORY
LogCommand(h, entry) ==
  LET h2 == <<entry>> \o h
  IN  IF Len(h2) > MAX_HISTORY THEN SubSeq(h2, 1, Len(h2) - 1) ELSE h2

Entry(id, key, success, kind) ==
  [id |-> id, key |-> key, success |-> success, kind |-> kind]

\* the value a call returns, recorded against its submission
Return(d, id, kind) == [d EXCEPT !.submits[id].result = kind]

\* queueCommand with unshift in place of push
QueueCommandFront(d, key, id) ==
  LET d1 == [d EXCEPT !.queue = <<[key |-> key, id |-> id]>> \o @]
      d2 == IF ~d1.proc
            THEN [d1 EXCEPT !.timers = @ \cup {now + rateLimitMs}]
            ELSE d1
  IN  Return(d2, id, "queued")

\* queueCommand
QueueCommand(d, key, id) ==
  LET d1 == [d EXCEPT !.queue = Append(@, [key |-> key, id |-> id])]
      d2 == IF ~d1.proc
            THEN [d1 EXCEPT !.timers = @ \cup {now + rateLimitMs}]
            ELSE d1
  IN  Return(d2, id, "queued")

\* simulateKey with the capacity test off by one (<= for <)
SimulateKeySyncOffByOne(d, key, id, via, saved) ==
  IF testMode
  THEN Return([d EXCEPT !.history = LogCommand(@, Entry(id, key, TRUE, "test"))],
              id, "test")
  ELSE IF now - d.last < rateLimitMs
  THEN IF Len(d.queue) <= MaxQueueSize
       THEN QueueCommand(d, key, id)
       ELSE Return([d EXCEPT !.history =
                               LogCommand(@, Entry(id, key, FALSE, "dropped"))],
                   id, "dropped")
  ELSE [d EXCEPT !.calls = @ \cup {[id |-> id, key |-> key, via |-> via,
                                    saved |-> saved, start |-> now]},
                 !.invocations = Append(@, [id |-> id, via |-> via, at |-> now])]

\* simulateKey with the test mode branch placed after the rate limit check
SimulateKeySyncRateFirst(d, key, id, via, saved) ==
  IF now - d.last < rateLimitMs
  THEN IF Len(d.queue) < MaxQueueSize
       THEN QueueCommand(d, key, id)
       ELSE Return([d EXCEPT !.history =
                               LogCommand(@, Entry(id, key, FALSE, "dropped"))],
                   id, "dropped")
  ELSE IF testMode
  THEN Return([d EXCEPT !.history = LogCommand(@, Entry(id, key, TRUE, "test"))],
              id, "test")
  ELSE [d EXCEPT !.calls = @ \cup {[id |-> id, key |-> key, via |-> via,
                                    saved |-> saved, start |-> now]},
                 !.invocations = Append(@, [id |-> id, via |-> via, at |-> now])]

\* simulateKey that queues within the rate window whatever the queue holds
SimulateKeySyncNoCapacity(d, key, id, via, saved) ==
  IF testMode
  THEN Return([d EXCEPT !.history = LogCommand(@, Entry(id, key, TRUE, "test"))],
              id, "test")
  ELSE IF now - d.last < rateLimitMs
  THEN QueueCommand(d, key, id)
  ELSE [d EXCEPT !.calls = @ \cup {[id |-> id, key |-> key, via |-> via,
                                    saved |-> saved, start |-> now]},
                 !.invocations = Append(@, [id |-> id, via |-> via, at |-> now])]

\* simulateKey up to its first suspension (or its synchronous return)
SimulateKeySync(d, key, id, via, saved) ==
  IF testMode
  THEN Return([d EXCEPT !.history = LogCommand(@, Entry(id, key, TRUE, "test"))],
              id, "test")
  ELSE IF now - d.last < rateLimitMs
  THEN IF Len(d.queue) < MaxQueueSize
       THEN QueueCommand(d, key, id)
       ELSE Return([d EXCEPT !.history =
                               LogCommand(@, Entry(id, key, FALSE, "dropped"))],
                   id, "dropped")
  ELSE [d EXCEPT !.calls = @ \cup {[id |-> id, key |-> key, via |-> via,
                                    saved |-> saved, start |-> now]},
                 !.invocations = Append(@, [id |-> id, via |-> via, at |-> now])]

\* the while loop of processQueue, run until it suspends or ends
RECURSIVE ProcessQueueLoop(_)
ProcessQueueLoop(d) ==
  IF Len(d.queue) > 0
  THEN IF now - d.last >= rateLimitMs
       THEN LET head == Head(d.queue)
                d1 == SimulateKeySync([d EXCEPT !.queue = Tail(@)],
                                      head.key, head.id, "drain", 0)
            IN  IF d1.calls # d.calls
                THEN [d1 EXCEPT !.pc = "exec"]
                ELSE ProcessQueueLoop(d1)
       ELSE [d EXCEPT !.pc = "sleep", !.wake = d.last + rateLimitMs]
  ELSE [d EXCEPT !.proc = FALSE, !.pc = "idle"]

\* processQueue without the isProcessingQueue guard
ProcessQueueUnguarded(d) ==
  IF Len(d.queue) = 0
  THEN d
  ELSE ProcessQueueLoop([d EXCEPT !.proc = TRUE])

\* processQueue
ProcessQueue(d) ==
  IF d.proc \/ Len(d.queue) = 0
  THEN d
  ELSE ProcessQueueLoop([d EXCEPT !.proc = TRUE])

\* simulateKey that puts the action back into the queue when the executor
\* throws
SimulateKeyResumeRetry(d, call, outcome) ==
  LET d0 == [d EXCEPT !.calls = @ \ {call}]
  IN  IF outcome = "throw"
      THEN QueueCommand([d0 EXCEPT !.history =
                               LogCommand(@, Entry(call.id, call.key, FALSE, "error"))],
                        call.key, call.id)
      ELSE LET d1 == [d0 EXCEPT !.last = now,
                                !.history = LogCommand(@, Entry(call.id, call.key,
                                                  outcome = "ok", "pressed"))]
           IN  Return(ProcessQueue(d1), call.id,
                      IF outcome = "ok" THEN "pressed" ELSE "failed")

\* simulateKey that returns the executor's exception without logging it
SimulateKeyResumeSilent(d, call, outcome) ==
  LET d0 == [d EXCEPT !.calls = @ \ {call}]
  IN  IF outcome = "throw"
      THEN Return(d0, call.id, "error")
      ELSE LET d1 == [d0 EXCEPT !.last = now,
                                !.history = LogCommand(@, Entry(call.id, call.key,
                                                  outcome = "ok", "pressed"))]
           IN  Return(ProcessQueue(d1), call.id,
                      IF outcome = "ok" THEN "pressed" ELSE "failed")

\* simulateKey that stamps lastCommandTime before it returns the exception
SimulateKeyResumeStamped(d, call, outcome) ==
  LET d0 == [d EXCEPT !.calls = @ \ {call}]
  IN  IF outcome = "throw"
      THEN Return([d0 EXCEPT !.last = now,
                             !.history =
                               LogCommand(@, Entry(call.id, call.key, FALSE, "error"))],
                  call.id, "error")
      ELSE LET d1 == [d0 EXCEPT !.last = now,
                                !.history = LogCommand(@, Entry(call.id, call.key,
                                                  outcome = "ok", "pressed"))]
           IN  Return(ProcessQueue(d1), call.id,
                      IF outcome = "ok" THEN "pressed" ELSE "failed")

\* simulateKey from the end of the key press to its return
SimulateKeyResume(d, call, outcome) ==
  LET d0 == [d EXCEPT !.calls = @ \ {call}]
  IN  IF outcome = "throw"
      THEN Return([d0 EXCEPT !.history =
                               LogCommand(@, Entry(call.id, call.key, FALSE, "error"))],
                  call.id, "error")
      ELSE LET d1 == [d0 EXCEPT !.last = now,
                                !.history = LogCommand(@, Entry(call.id, call.key,
                                                  outcome = "ok", "pressed"))]
           IN  Return(ProcessQueue(d1), call.id,
                      IF outcome = "ok" THEN "pressed" ELSE "failed")

\* a drain loop that ends after its first key press, whatever is in the queue
AfterReturnOnce(d, call, outcome) ==
  CASE call.via = "drain" -> [d EXCEPT !.proc = FALSE, !.pc = "idle"]
    [] call.via = "test"  -> IF outcome # "ok"
                             THEN [d EXCEPT !.last = call.saved]
                             ELSE d
    [] OTHER              -> d

\* what the caller of a completed simulateKey does next
AfterReturn(d, call, outcome) ==
  CASE call.via = "drain" -> ProcessQueueLoop(d)
    [] call.via = "test"  -> IF outcome # "ok"
                             THEN [d EXCEPT !.last = call.saved]
                             ELSE d
    [] OTHER              -> d

\* outcomes of the Action Executor
Outcomes == IF robotAvailable THEN {"ok", "fail"} ELSE {"ok", "fail", "throw"}

\* robotjs holds the key for keyPressDelay (sleep); the osascript child
\* process returns at any time up to MaxExecTicks ticks after its start
ExecDeadline(call) ==
  call.start + (IF robotAvailable THEN KeyPressDelay ELSE MaxExecTicks * TickMs)

MayComplete(call) ==
  robotAvailable => now >= call.start + KeyPressDelay

NewSubmit(d, key, op) ==
  [d EXCEPT !.submits = Append(@, [op |-> op, key |-> key, result |-> "pending"])]

CanSubmit == Len(submits) < cap.submits /\ Cardinality(calls) < MaxInFlight

(***************************************************************************)
(* Actions of the dispatcher.                                              *)
(***************************************************************************)
InitDispatcher ==
  /\ now = StartTime
  /\ lastCommandTime = 0
  /\ commandQueue = <<>>
  /\ isProcessingQueue = FALSE
  /\ commandHistory = <<>>
  /\ testMode = FALSE
  /\ rateLimitMs = DefaultRateLimitMs
  /\ robotAvailable \in BOOLEAN
  /\ timers = {}
  /\ drainPc = "idle"
  /\ drainWake = 0
  /\ calls = {}
  /\ submits = <<>>
  /\ invocations = <<>>

\* keyboard.simulateKey(key) called by ipcMain.handle('execute-command')
SimulateKeyCall(key) ==
  /\ CanSubmit
  /\ Apply(SimulateKeySync(NewSubmit(Disp, key, "simulateKey"), key,
                           Len(submits) + 1, "direct", 0))
  /\ UNCHANGED <<now, testMode, rateLimitMs, robotAvailable, cap>>

\* ipcMain.handle('execute-command') invoked with any key
SimulateKey(key) ==
  /\ SimulateKeyCall(key)
  /\ UNCHANGED sessVars
  /\ UNCHANGED <<probeVars, mainVars, lifeVars>>

\* ipcMain.handle('test-keyboard') -> keyboard.testKey(key)
TestKey(key) ==
  /\ CanSubmit
  /\ LET id == Len(submits) + 1
         d0 == [NewSubmit(Disp, key, "testKey") EXCEPT !.last = 0]
         d1 == SimulateKeySync(d0, key, id, "test", lastCommandTime)
     IN  Apply(IF d1.submits[id].result = "dropped"
               THEN [d1 EXCEPT !.last = lastCommandTime]
               ELSE d1)
  /\ UNCHANGED <<now, testMode, rateLimitMs, robotAvailable, cap>>
  /\ UNCHANGED sessVars
  /\ UNCHANGED <<probeVars, mainVars, lifeVars>>

\* the key press of a suspended simulateKey ends and the call runs to its return
KeyPressDone(call, outcome) ==
  /\ call \in calls
  /\ outcome \in Outcomes
  /\ MayComplete(call)
  /\ Apply(AfterReturn(SimulateKeyResume(Disp, call, outcome), call, outcome))
  /\ UNCHANGED <<now, testMode, rateLimitMs, robotAvailable, cap>>
  /\ UNCHANGED sessVars
  /\ UNCHANGED <<probeVars, mainVars, lifeVars>>

\* the timer set by queueCommand fires: processQueue()
QueueTimer(t) ==
  /\ t \in timers
  /\ now >= t
  /\ Apply(ProcessQueue([Disp EXCEPT !.timers = @ \ {t}]))
  /\ UNCHANGED <<now, testMode, rateLimitMs, robotAvailable, cap>>
  /\ UNCHANGED sessVars
  /\ UNCHANGED <<probeVars, mainVars, lifeVars>>

\* the sleep of the processQueue loop ends
DrainWake ==
  /\ drainPc = "sleep"
  /\ now >= drainWake
  /\ Apply(ProcessQueueLoop(Disp))
  /\ UNCHANGED <<now, testMode, rateLimitMs, robotAvailable, cap>>
  /\ UNCHANGED sessVars
  /\ UNCHANGED <<probeVars, mainVars, lifeVars>>

\* setTestMode
SetTestMode(enabled) ==
  /\ testMode # enabled
  /\ testMode' = enabled
  /\ UNCHANGED <<now, lastCommandTime, commandQueue, isProcessingQueue,
                 commandHistory, rateLimitMs, robotAvailable, timers, drainPc,
                 drainWake, calls, submits, invocations, cap>>
  /\ UNCHANGED sessVars
  /\ UNCHANGED <<probeVars, mainVars, lifeVars>>

\* the clock
Tick ==
  /\ now + TickMs <= StartTime + cap.ticks * TickMs
  /\ \A t \in timers : now < t
  /\ drainPc = "sleep" => now < drainWake
  /\ \A call \in calls : now < ExecDeadline(call)
  /\ now' = now + TickMs
  /\ UNCHANGED <<lastCommandTime, commandQueue, isProcessingQueue,
                 commandHistory, testMode, rateLimitMs, robotAvailable, timers,
                 drainPc, drainWake, calls, submits, invocations, cap>>
  /\ UNCHANGED sessVars
  /\ UNCHANGED <<probeVars, mainVars, lifeVars>>

\* the clock after the horizon of the run: time goes on while a timer, a sleep
\* or a key press is pending
TickOver ==
  /\ now + TickMs > StartTime + cap.ticks * TickMs
  /\ timers # {} \/ drainPc = "sleep" \/ calls # {}
  /\ \A t \in timers : now < t
  /\ drainPc = "sleep" => now < drainWake
  /\ \A call \in calls : now < ExecDeadline(call)
  /\ now' = now + TickMs
  /\ UNCHANGED <<lastCommandTime, commandQueue, isProcessingQueue,
                 commandHistory, testMode, rateLimitMs, robotAvailable, timers,
                 drainPc, drainWake, calls, submits, invocations, cap>>
  /\ UNCHANGED sessVars
  /\ UNCHANGED <<probeVars, mainVars, lifeVars>>

\* getQueueStatus
getQueueStatus ==
  [size |-> Len(commandQueue), maxSize |-> MaxQueueSize,
   isProcessing |-> isProcessingQueue]

(***************************************************************************)
(* The voice recognition session (voice.js) and the renderer handlers.     *)
(***************************************************************************)
DefaultConfidenceThreshold == 75
TrainerModeThreshold == 80
LowConfidenceThreshold == 65
ThresholdFloor == 50
ThresholdCeiling == 95
CommandLogCap == 50
SimulatedConfidence == 95

\* the command registry, in the order of the source
VOICE_COMMANDS == <<
  \* elbow flick, elbow, signal, flick, elbow flex
  [phrases |-> <<
      <<"e","l","b","o","w"," ","f","l","i","c","k">>,
      <<"e","l","b","o","w">>,
      <<"s","i","g","n","a","l">>,
      <<"f","l","i","c","k">>,
      <<"e","l","b","o","w"," ","f","l","e","x">>>>,
   key |-> "4", description |-> "Elbow flick signal", priority |-> 1],
  \* power up, use power up, activate, powerup, power-up, use powerup, boost
  [phrases |-> <<
      <<"p","o","w","e","r"," ","u","p">>,
      <<"u","s","e"," ","p","o","w","e","r"," ","u","p">>,
      <<"a","c","t","i","v","a","t","e">>,
      <<"p","o","w","e","r","u","p">>,
      <<"p","o","w","e","r","-","u","p">>,
      <<"u","s","e"," ","p","o","w","e","r","u","p">>,
      <<"b","o","o","s","t">>>>,
   key |-> "space", description |-> "Use power-up", priority |-> 1],
  \* turn left, left, go left, take left
  [phrases |-> <<
      <<"t","u","r","n"," ","l","e","f","t">>,
      <<"l","e","f","t">>,
      <<"g","o"," ","l","e","f","t">>,
      <<"t","a","k","e"," ","l","e","f","t">>>>,
   key |-> "left", description |-> "Turn left", priority |-> 1],
  \* turn right, right, go right, take right
  [phrases |-> <<
      <<"t","u","r","n"," ","r","i","g","h","t">>,
      <<"r","i","g","h","t">>,
      <<"g","o"," ","r","i","g","h","t">>,
      <<"t","a","k","e"," ","r","i","g","h","t">>>>,
   key |-> "right", description |-> "Turn right", priority |-> 1],
  \* go straight, straight, straight on, straight ahead
  [phrases |-> <<
      <<"g","o"," ","s","t","r","a","i","g","h","t">>,
      <<"s","t","r","a","i","g","h","t">>,
      <<"s","t","r","a","i","g","h","t"," ","o","n">>,
      <<"s","t","r","a","i","g","h","t"," ","a","h","e","a","d">>>>,
   key |-> "up", description |-> "Go straight", priority |-> 1],
  \* camera 1, camera one, view 1, view one
  [phrases |-> <<
      <<"c","a","m","e","r","a"," ","1">>,
      <<"c","a","m","e","r","a"," ","o","n","e">>,
      <<"v","i","e","w"," ","1">>,
      <<"v","i","e","w"," ","o","n","e">>>>,
   key |-> "1", description |-> "Camera view 1", priority |-> 1],
  \* camera 2, camera two, view 2, view two
  [phrases |-> <<
      <<"c","a","m","e","r","a"," ","2">>,
      <<"c","a","m","e","r","a"," ","t","w","o">>,
      <<"v","i","e","w"," ","2">>,
      <<"v","i","e","w"," ","t","w","o">>>>,
   key |-> "2", description |-> "Camera view 2", priority |-> 1],
  \* camera 3, camera three, view 3, view three, behind view
  [phrases |-> <<
      <<"c","a","m","e","r","a"," ","3">>,
      <<"c","a","m","e","r","a"," ","t","h","r","e","e">>,
      <<"v","i","e","w"," ","3">>,
      <<"v","i","e","w"," ","t","h","r","e","e">>,
      <<"b","e","h","i","n","d"," ","v","i","e","w">>>>,
   key |-> "3", description |-> "Camera view 3 (behind)", priority |-> 1],
  \* camera 4, camera four, view 4, view four
  [phrases |-> <<
      <<"c","a","m","e","r","a"," ","4">>,
      <<"c","a","m","e","r","a"," ","f","o","u","r">>,
      <<"v","i","e","w"," ","4">>,
      <<"v","i","e","w"," ","f","o","u","r">>>>,
   key |-> "5", description |-> "Camera view 4", priority |-> 1],
  \* camera 5, camera five, view 5, view five
  [phrases |-> <<
      <<"c","a","m","e","r","a"," ","5">>,
      <<"c","a","m","e","r","a"," ","f","i","v","e">>,
      <<"v","i","e","w"," ","5">>,
      <<"v","i","e","w"," ","f","i","v","e">>>>,
   key |-> "6", description |-> "Camera view 5", priority |-> 1],
  \* camera 6, camera six, view 6, view six
  [phrases |-> <<
      <<"c","a","m","e","r","a"," ","6">>,
      <<"c","a","m","e","r","a"," ","s","i","x">>,
      <<"v","i","e","w"," ","6">>,
      <<"v","i","e","w"," ","s","i","x">>>>,
   key |-> "7", description |-> "Camera view 6", priority |-> 1],
  \* camera 7, camera seven, view 7, view seven
  [phrases |-> <<
      <<"c","a","m","e","r","a"," ","7">>,
      <<"c","a","m","e","r","a"," ","s","e","v","e","n">>,
      <<"v","i","e","w"," ","7">>,
      <<"v","i","e","w"," ","s","e","v","e","n">>>>,
   key |-> "8", description |-> "Camera view 7", priority |-> 1],
  \* camera 8, camera eight, view 8, view eight
  [phrases |-> <<
      <<"c","a","m","e","r","a"," ","8">>,
      <<"c","a","m","e","r","a"," ","e","i","g","h","t">>,
      <<"v","i","e","w"," ","8">>,
      <<"v","i","e","w"," ","e","i","g","h","t">>>>,
   key |-> "9", description |-> "Camera view 8", priority |-> 1],
  \* camera 9, camera nine, view 9, view nine, drone view, drone
  [phrases |-> <<
      <<"c","a","m","e","r","a"," ","9">>,
      <<"c","a","m","e","r","a"," ","n","i","n","e">>,
      <<"v","i","e","w"," ","9">>,
      <<"v","i","e","w"," ","n","i","n","e">>,
      <<"d","r","o","n","e"," ","v","i","e","w">>,
      <<"d","r","o","n","e">>>>,
   key |-> "0", description |-> "Camera view 9 (drone)", priority |-> 1],
  \* u turn, u-turn, turn around, reverse, go back, uturn
  [phrases |-> <<
      <<"u"," ","t","u","r","n">>,
      <<"u","-","t","u","r","n">>,
      <<"t","u","r","n"," ","a","r","o","u","n","d">>,
      <<"r","e","v","e","r","s","e">>,
      <<"g","o"," ","b","a","c","k">>,
      <<"u","t","u","r","n">>>>,
   key |-> "down", description |-> "U-Turn", priority |-> 2],
  \* screenshot, take picture, capture, photo, take photo, snap
  [phrases |-> <<
      <<"s","c","r","e","e","n","s","h","o","t">>,
      <<"t","a","k","e"," ","p","i","c","t","u","r","e">>,
      <<"c","a","p","t","u","r","e">>,
      <<"p","h","o","t","o">>,
      <<"t","a","k","e"," ","p","h","o","t","o">>,
      <<"s","n","a","p">>>>,
   key |-> "f10", description |-> "Take screenshot", priority |-> 2],
  \* wave, say hi, hello, hi there
  [phrases |-> <<
      <<"w","a","v","e">>,
      <<"s","a","y"," ","h","i">>,
      <<"h","e","l","l","o">>,
      <<"h","i"," ","t","h","e","r","e">>>>,
   key |-> "5", description |-> "Wave", priority |-> 2],
  \* ride on, rideon, ride-on, thumbs up
  [phrases |-> <<
      <<"r","i","d","e"," ","o","n">>,
      <<"r","i","d","e","o","n">>,
      <<"r","i","d","e","-","o","n">>,
      <<"t","h","u","m","b","s"," ","u","p">>>>,
   key |-> "6", description |-> "Ride On!", priority |-> 2],
  \* hammer, hammer time, hammertime
  [phrases |-> <<
      <<"h","a","m","m","e","r">>,
      <<"h","a","m","m","e","r"," ","t","i","m","e">>,
      <<"h","a","m","m","e","r","t","i","m","e">>>>,
   key |-> "7", description |-> "Hammer time", priority |-> 2],
  \* toast, cheers, drink
  [phrases |-> <<
      <<"t","o","a","s","t">>,
      <<"c","h","e","e","r","s">>,
      <<"d","r","i","n","k">>>>,
   key |-> "8", description |-> "Toast", priority |-> 2],
  \* nice, nice one, good job
  [phrases |-> <<
      <<"n","i","c","e">>,
      <<"n","i","c","e"," ","o","n","e">>,
      <<"g","o","o","d"," ","j","o","b">>>>,
   key |-> "9", description |-> "Nice!", priority |-> 2],
  \* bring it, bring it on, lets go, let's go
  [phrases |-> <<
      <<"b","r","i","n","g"," ","i","t">>,
      <<"b","r","i","n","g"," ","i","t"," ","o","n">>,
      <<"l","e","t","s"," ","g","o">>,
      <<"l","e","t","'","s"," ","g","o">>>>,
   key |-> "0", description |-> "Bring it!", priority |-> 2],
  \* skip, skip block, next block, skip workout
  [phrases |-> <<
      <<"s","k","i","p">>,
      <<"s","k","i","p"," ","b","l","o","c","k">>,
      <<"n","e","x","t"," ","b","l","o","c","k">>,
      <<"s","k","i","p"," ","w","o","r","k","o","u","t">>>>,
   key |-> "tab", description |-> "Skip workout block", priority |-> 2],
  \* easier, bias down, reduce, lower
  [phrases |-> <<
      <<"e","a","s","i","e","r">>,
      <<"b","i","a","s"," ","d","o","w","n">>,
      <<"r","e","d","u","c","e">>,
      <<"l","o","w","e","r">>>>,
   key |-> "pagedown", description |-> "Decrease difficulty", priority |-> 2],
  \* harder, bias up, increase, raise
  [phrases |-> <<
      <<"h","a","r","d","e","r">>,
      <<"b","i","a","s"," ","u","p">>,
      <<"i","n","c","r","e","a","s","e">>,
      <<"r","a","i","s","e">>>>,
   key |-> "pageup", description |-> "Increase difficulty", priority |-> 2],
  \* menu, show menu, customize, change gear, garage, pause
  [phrases |-> <<
      <<"m","e","n","u">>,
      <<"s","h","o","w"," ","m","e","n","u">>,
      <<"c","u","s","t","o","m","i","z","e">>,
      <<"c","h","a","n","g","e"," ","g","e","a","r">>,
      <<"g","a","r","a","g","e">>,
      <<"p","a","u","s","e">>>>,
   key |-> "escape", description |-> "Open menu", priority |-> 3],
  \* panoramic view, wide view, panoramic, pan view
  [phrases |-> <<
      <<"p","a","n","o","r","a","m","i","c"," ","v","i","e","w">>,
      <<"w","i","d","e"," ","v","i","e","w">>,
      <<"p","a","n","o","r","a","m","i","c">>,
      <<"p","a","n"," ","v","i","e","w">>>>,
   key |-> "0", description |-> "Panoramic view", priority |-> 3],
  \* graph, show graph, toggle graph, stats
  [phrases |-> <<
      <<"g","r","a","p","h">>,
      <<"s","h","o","w"," ","g","r","a","p","h">>,
      <<"t","o","g","g","l","e"," ","g","r","a","p","h">>,
      <<"s","t","a","t","s">>>>,
   key |-> "g", description |-> "Toggle graph", priority |-> 3],
  \* hide, hide ui, clean view, minimal
  [phrases |-> <<
      <<"h","i","d","e">>,
      <<"h","i","d","e"," ","u","i">>,
      <<"c","l","e","a","n"," ","v","i","e","w">>,
      <<"m","i","n","i","m","a","l">>>>,
   key |-> "h", description |-> "Hide UI", priority |-> 3],
  \* fan up, increase fan, more fan
  [phrases |-> <<
      <<"f","a","n"," ","u","p">>,
      <<"i","n","c","r","e","a","s","e"," ","f","a","n">>,
      <<"m","o","r","e"," ","f","a","n">>>>,
   key |-> "pageup", description |-> "Fan speed up", priority |-> 3],
  \* fan down, decrease fan, less fan
  [phrases |-> <<
      <<"f","a","n"," ","d","o","w","n">>,
      <<"d","e","c","r","e","a","s","e"," ","f","a","n">>,
      <<"l","e","s","s"," ","f","a","n">>>>,
   key |-> "pagedown", description |-> "Fan speed down", priority |-> 3]
>>

\* String.prototype.toLowerCase on the letters of the inputs
UpperCaseLetters ==
  <<"A","B","C","D","E","F","G","H","I","J","K","L","M","N","O","P","Q","R","S","T","U","V","W","X","Y","Z">>
LowerCaseLetters ==
  <<"a","b","c","d","e","f","g","h","i","j","k","l","m","n","o","p","q","r","s","t","u","v","w","x","y","z">>
Digits == {"0", "1", "2", "3", "4", "5", "6", "7", "8", "9"}

LowerChar(c) ==
  IF \E k \in 1..Len(UpperCaseLetters) : UpperCaseLetters[k] = c
  THEN LowerCaseLetters[CHOOSE k \in 1..Len(UpperCaseLetters) : UpperCaseLetters[k] = c]
  ELSE c

ToLowerCase(s) == [i \in 1..Len(s) |-> LowerChar(s[i])]

\* String.prototype.trim
RECURSIVE TrimStart(_)
TrimStart(s) ==
  IF s # <<>> /\ Head(s) = " " THEN TrimStart(Tail(s)) ELSE s

RECURSIVE TrimEnd(_)
TrimEnd(s) ==
  IF s # <<>> /\ s[Len(s)] = " " THEN TrimEnd(SubSeq(s, 1, Len(s) - 1)) ELSE s

Trim(s) == TrimEnd(TrimStart(s))

\* the word characters of a regular expression: \b lies between a word
\* character and anything else
IsWordChar(c) ==
  \/ c \in Digits
  \/ c = "_"
  \/ \E k \in 1..Len(LowerCaseLetters) : c \in {LowerCaseLetters[k], UpperCaseLetters[k]}

\* /\bword\b/gi matches at position i of s
WordAt(s, i, word) ==
  /\ i + Len(word) - 1 <= Len(s)
  /\ ToLowerCase(SubSeq(s, i, i + Len(word) - 1)) = word
  /\ i = 1 \/ ~IsWordChar(s[i - 1])
  /\ i + Len(word) > Len(s) \/ ~IsWordChar(s[i + Len(word)])

\* a replace that stops after the first occurrence
ReplaceWordFirst(s, i, word, digit) ==
  LET at == {j \in i..Len(s) : WordAt(s, j, word)}
  IN  IF at = {} THEN s
      ELSE LET first == CHOOSE j \in at : \A other \in at : j <= other
           IN  SubSeq(s, 1, first - 1) \o digit \o SubSeq(s, first + Len(word), Len(s))

\* result.replace(new RegExp(`\\b${word}\\b`, 'gi'), digit), from position i
RECURSIVE ReplaceWord(_, _, _, _)
ReplaceWord(s, i, word, digit) ==
  IF i > Len(s) THEN <<>>
  ELSE IF WordAt(s, i, word)
  THEN digit \o ReplaceWord(s, i + Len(word), word, digit)
  ELSE <<s[i]>> \o ReplaceWord(s, i + 1, word, digit)

NumberMap == <<
  [word |-> <<"z","e","r","o">>, digit |-> <<"0">>],
  [word |-> <<"o","n","e">>, digit |-> <<"1">>],
  [word |-> <<"t","w","o">>, digit |-> <<"2">>],
  [word |-> <<"t","h","r","e","e">>, digit |-> <<"3">>],
  [word |-> <<"f","o","u","r">>, digit |-> <<"4">>],
  [word |-> <<"f","i","v","e">>, digit |-> <<"5">>],
  [word |-> <<"s","i","x">>, digit |-> <<"6">>],
  [word |-> <<"s","e","v","e","n">>, digit |-> <<"7">>],
  [word |-> <<"e","i","g","h","t">>, digit |-> <<"8">>],
  [word |-> <<"n","i","n","e">>, digit |-> <<"9">>],
  [word |-> <<"t","e","n">>, digit |-> <<"1","0">>]
>>

\* the loop of convertSpokenNumbers over the entries of numberMap from k on
RECURSIVE ConvertFrom(_, _)
ConvertFrom(result, k) ==
  IF k > Len(NumberMap) THEN result
  ELSE ConvertFrom(ReplaceWord(result, 1, NumberMap[k].word, NumberMap[k].digit), k + 1)

convertSpokenNumbers(text) == ConvertFrom(ToLowerCase(text), 1)

\* convertSpokenNumbers(transcript.toLowerCase().trim())
Normalize(transcript) == convertSpokenNumbers(Trim(ToLowerCase(transcript)))

Min3(x, y, z) ==
  IF x <= y /\ x <= z THEN x ELSE IF y <= z THEN y ELSE z

\* row i of the matrix of levenshteinDistance, built from column 0 on; prev is
\* row i - 1, ch is b.charAt(i - 1), column j is element j + 1.  A finished
\* row is bound as the one element of a set, so that it is computed before
\* the next row starts.
RECURSIVE MatrixRow(_, _, _, _)
MatrixRow(a, ch, prev, row) ==
  IF Len(row) = Len(a) + 1 THEN row
  ELSE LET j == Len(row)
           cell == IF ch = a[j]
                   THEN prev[j]
                   ELSE Min3(prev[j] + 1, row[j] + 1, prev[j + 1] + 1)
       IN  MatrixRow(a, ch, prev, Append(row, cell))

RECURSIVE MatrixFrom(_, _, _, _)
MatrixFrom(a, b, i, prev) ==
  IF i > Len(b) THEN prev[Len(a) + 1]
  ELSE CHOOSE result \in {MatrixFrom(a, b, i + 1, row) :
                          row \in {MatrixRow(a, b[i], prev, <<i>>)}} : TRUE

levenshteinDistance(a, b) ==
  MatrixFrom(a, b, 1, [j \in 1..(Len(a) + 1) |-> j - 1])

\* String.prototype.includes
Includes(s, sub) ==
  \E i \in 0..(Len(s) - Len(sub)) : SubSeq(s, i + 1, i + Len(sub)) = sub

Abs(x) == IF x < 0 THEN 0 - x ELSE x
Max(x, y) == IF x > y THEN x ELSE y

\* [...VOICE_COMMANDS].sort((a, b) => a.priority - b.priority): the sort is
\* stable, so commands of one priority keep the order of the registry
RECURSIVE SortFrom(_, _)
SortFrom(priority, last) ==
  IF priority > last THEN <<>>
  ELSE SelectSeq([i \in 1..Len(VOICE_COMMANDS) |-> i],
                 LAMBDA i : VOICE_COMMANDS[i].priority = priority)
       \o SortFrom(priority + 1, last)

sortedCommands ==
  LET priorities == {VOICE_COMMANDS[i].priority : i \in 1..Len(VOICE_COMMANDS)}
      lowest == CHOOSE p \in priorities : \A q \in priorities : p <= q
      highest == CHOOSE p \in priorities : \A q \in priorities : q <= p
  IN  SortFrom(lowest, highest)

\* _matchCommand returns null
NoMatch ==
  [found |-> FALSE, command |-> 0, matchedPhrase |-> <<>>,
   isLowConfidence |-> FALSE, score |-> 0]

\* the conditions and results of one iteration of _matchCommand
ContainsMatchOneWay(transcript, phrase) == Includes(transcript, phrase)

\* transcript.includes(phrase) || phrase.includes(transcript)
ContainsMatch(transcript, phrase) ==
  Includes(transcript, phrase) \/ Includes(phrase, transcript)

MaxDistanceLoose(phrase) == Max(2, (Len(phrase) * 3) \div 10) + 1

\* Math.max(2, Math.floor(phrase.length * 0.3))
MaxDistance(phrase) == Max(2, (Len(phrase) * 3) \div 10)

IsBetterOrEqual(score, best) == ~best.found \/ score <= best.score

\* score < bestScore, bestScore being Infinity while nothing is found
IsBetter(score, best) == ~best.found \/ score < best.score

ExactMatchStale(exact, best) == IF best.found THEN best ELSE exact

\* the value returned for an exact match; best is bestMatch at that point
ExactMatch(exact, best) == exact

\* the inner loop of _matchCommand from phrase k of a command on; best is
\* bestMatch, and bestScore is Infinity while nothing is found; returned tells
\* that the function has returned an exact match.  The value of bestMatch
\* after an iteration is bound as the one element of a set, so that it is
\* computed before the next iteration starts.
RECURSIVE MatchPhrases(_, _, _, _, _)
MatchPhrases(command, k, transcript, isLowConfidence, best) ==
  IF k > Len(VOICE_COMMANDS[command].phrases)
  THEN [returned |-> FALSE, match |-> best]
  ELSE
    LET phrase == VOICE_COMMANDS[command].phrases[k]
        match(score) == [found |-> TRUE, command |-> command,
                         matchedPhrase |-> phrase,
                         isLowConfidence |-> isLowConfidence, score |-> score]
        containsScore == Abs(Len(transcript) - Len(phrase))
        afterContains ==
          IF /\ ContainsMatch(transcript, phrase)
             /\ IsBetter(containsScore, best)
          THEN match(containsScore)
          ELSE best
        distance == levenshteinDistance(transcript, phrase)
        maxDistance == MaxDistance(phrase)
        afterFuzzy ==
          IF /\ distance <= maxDistance
             /\ IsBetter(distance, afterContains)
          THEN match(distance)
          ELSE afterContains
    IN  IF transcript = phrase
        THEN [returned |-> TRUE, match |-> ExactMatch(match(0), best)]
        ELSE CHOOSE result \in {MatchPhrases(command, k + 1, transcript,
                                             isLowConfidence, bestMatch) :
                                bestMatch \in {afterFuzzy}} : TRUE

\* the outer loop of _matchCommand from element c of sortedCommands on
RECURSIVE MatchFrom(_, _, _, _)
MatchFrom(c, transcript, isLowConfidence, best) ==
  IF c > Len(sortedCommands) THEN best
  ELSE CHOOSE result \in
         {IF inner.returned
          THEN inner.match
          ELSE MatchFrom(c + 1, transcript, isLowConfidence, inner.match) :
            inner \in {MatchPhrases(sortedCommands[c], 1, transcript,
                                    isLowConfidence, best)}} : TRUE

\* what the speech engine and the test input deliver: a phrase of the
\* registry in another spelling, a misheard phrase, and no phrase at all
CameraOne == <<" ","C","a","m","e","r","a"," ","O","n","e"," ">>
TrnLeft == <<"t","r","n"," ","l","e","f","t">>
Banana == <<"b","a","n","a","n","a">>
Transcripts == {CameraOne, TrnLeft, Banana}
Confidences == {60, 78, 85}
ThresholdInputs == {40, 90, 99}
Alternatives == [transcript : Transcripts, confidence : Confidences]
\* speech results: interim ones; final ones of one alternative; final ones of
\* two alternatives of which either may be the better
Results ==
  [isFinal : {FALSE},
   alternatives : {<<[transcript |-> t, confidence |-> 0]>> : t \in Transcripts}]
  \cup [isFinal : {TRUE}, alternatives : {<<a>> : a \in Alternatives}]
  \cup [isFinal : {TRUE},
        alternatives : {<<a, b>> : a \in [transcript : {CameraOne}, confidence : {78, 85}],
                                   b \in [transcript : {Banana}, confidence : {78, 85}]}]

\* final results of three alternatives (maxAlternatives), told apart by their
\* transcripts, with every order of their confidences
RankedResults ==
  [isFinal : {TRUE},
   alternatives : {<<[transcript |-> CameraOne, confidence |-> a],
                     [transcript |-> TrnLeft, confidence |-> b],
                     [transcript |-> Banana, confidence |-> c]>> :
                   a \in Confidences, b \in Confidences, c \in Confidences}]

\* the normalization and the search of _matchCommand for the transcripts that
\* occur, computed once
\* every phrase of the registry
RegistryPhrases ==
  UNION {{VOICE_COMMANDS[c].phrases[k] : k \in 1..Len(VOICE_COMMANDS[c].phrases)} :
           c \in 1..Len(VOICE_COMMANDS)}

\* texts given to the normalizer and the matcher: the phrases of the registry,
\* the transcripts of the session, and texts that meet the rules of the
\* matcher at and beyond their limits
ProbeTexts ==
  RegistryPhrases \cup Transcripts \cup {
    <<"O","n","e"," ","o","n","e"," ","T","E","N">>,
    <<"t","o","n","e">>,
    <<"h","a","m","r"," ","t","m","e">>,
    <<"h","m","r"," ","t","m","e">>,
    <<"b","o","a","s","t">>,
    <<"l","i","g","t">>,
    <<"p","a","n","o">>}
\* a transcript of white space only, and the empty transcript
Blank == <<" ", " ">>
BlankTexts == {Blank, <<>>}
DeliveredTexts == Transcripts \cup BlankTexts
NormalizeTable == [t \in DeliveredTexts \cup {Trim(t) : t \in DeliveredTexts} |-> Normalize(t)]
\* the normalized texts the matcher is given: the transcripts of the session
\* at any confidence, the other texts at full confidence only
MatchTexts(isLowConfidence) ==
  {NormalizeTable[u] : u \in DOMAIN NormalizeTable}
    \cup IF isLowConfidence THEN {}
         ELSE {Normalize(t) : t \in ProbeTexts}
                \cup {Normalize(Normalize(t)) : t \in ProbeTexts}
MatchTable ==
  [l \in BOOLEAN |-> [t \in MatchTexts(l) |-> MatchFrom(1, t, l, NoMatch)]]

getThresholdAlwaysConfidence(opts) == opts.confidenceThreshold

getThreshold(opts) ==
  IF opts.trainerMode THEN opts.trainerModeThreshold ELSE opts.confidenceThreshold

matchCommandNoFloor(transcript, confidence, opts) ==
  MatchTable[confidence < getThreshold(opts)][transcript]

matchCommand(transcript, confidence, opts) ==
  IF confidence < opts.lowConfidenceThreshold
  THEN NoMatch
  ELSE MatchTable[confidence < getThreshold(opts)][transcript]

\* the event emitted for a final transcript by _handleResult and simulateCommand
Emit(transcript, confidence, opts) ==
  LET normalizedTranscript == NormalizeTable[transcript]
      matchResult == matchCommand(normalizedTranscript, confidence, opts)
  IN  [type |-> IF matchResult.found
                THEN IF matchResult.isLowConfidence THEN "lowConfidence" ELSE "command"
                ELSE "noMatch",
       transcript |-> transcript,
       normalizedTranscript |-> normalizedTranscript,
       confidence |-> confidence,
       command |-> matchResult.command,
       matchedPhrase |-> matchResult.matchedPhrase]

\* the loop over the alternatives with >= for >: the last one among equals
RECURSIVE BestAlternativeLast(_, _, _)
BestAlternativeLast(result, i, best) ==
  IF i > Len(result) THEN best
  ELSE BestAlternativeLast(result, i + 1,
                           IF result[i].confidence >= best.confidence THEN result[i] ELSE best)

\* the alternative of highest confidence, the first one among equals
RECURSIVE BestAlternative(_, _, _)
BestAlternative(result, i, best) ==
  IF i > Len(result) THEN best
  ELSE BestAlternative(result, i + 1,
                       IF result[i].confidence > best.confidence THEN result[i] ELSE best)

\* the renderer's handlers of the session's events: what they send to main
RendererOnAnyMatch(event, pending) ==
  IF event.type \in {"command", "lowConfidence"}
  THEN Append(pending, VOICE_COMMANDS[event.command].key)
  ELSE pending

RendererOn(event, pending) ==
  IF event.type = "command"
  THEN Append(pending, VOICE_COMMANDS[event.command].key)
  ELSE pending

\* main.js: let voiceSettings = {...}; the checkbox as loadSettings leaves it
\* when nothing was saved
InitMain ==
  /\ voiceSettings = [confidenceThreshold |-> DefaultConfidenceThreshold,
                      trainerMode |-> FALSE,
                      trainerModeThreshold |-> TrainerModeThreshold,
                      lowConfidenceThreshold |-> LowConfidenceThreshold]
  /\ trainerModeChecked = FALSE
  /\ settingsIpc = <<>>

InitSession ==
  /\ options = [confidenceThreshold |-> DefaultConfidenceThreshold,
                trainerMode |-> FALSE,
                trainerModeThreshold |-> TrainerModeThreshold,
                lowConfidenceThreshold |-> LowConfidenceThreshold]
  /\ lastTranscript = <<>>
  /\ lastConfidence = 0
  /\ commandLog = <<>>
  /\ lastEvents = <<>>
  /\ ipc = <<>>
  /\ handled = 0

\* _handleResult that never pops the command log
HandleResultUncapped(result) ==
  /\ handled < cap.results
  /\ handled' = handled + 1
  /\ IF ~result.isFinal
     THEN /\ lastEvents' = <<[type |-> "interim",
                              transcript |-> result.alternatives[1].transcript,
                              normalizedTranscript |-> <<>>, confidence |-> 0,
                              command |-> 0, matchedPhrase |-> <<>>]>>
          /\ UNCHANGED <<lastTranscript, lastConfidence, commandLog, ipc>>
     ELSE LET best == BestAlternative(result.alternatives, 2, result.alternatives[1])
              event == Emit(best.transcript, best.confidence, options)
              logEntry == [transcript |-> best.transcript,
                           confidence |-> best.confidence,
                           matched |-> IF event.command = 0
                                       THEN "null"
                                       ELSE VOICE_COMMANDS[event.command].description]
              log == <<logEntry>> \o commandLog
          IN  /\ lastTranscript' = best.transcript
              /\ lastConfidence' = best.confidence
              /\ lastEvents' = <<event>>
              /\ ipc' = RendererOn(event, ipc)
              /\ commandLog' = log
  /\ UNCHANGED options
  /\ UNCHANGED dispVars
  /\ UNCHANGED <<probeVars, mainVars, lifeVars>>

\* recognition.onresult -> _handleResult(event), the event's last result
HandleResult(result) ==
  /\ handled < cap.results
  /\ handled' = handled + 1
  /\ IF ~result.isFinal
     THEN /\ lastEvents' = <<[type |-> "interim",
                              transcript |-> result.alternatives[1].transcript,
                              normalizedTranscript |-> <<>>, confidence |-> 0,
                              command |-> 0, matchedPhrase |-> <<>>]>>
          /\ UNCHANGED <<lastTranscript, lastConfidence, commandLog, ipc>>
     ELSE LET best == BestAlternative(result.alternatives, 2, result.alternatives[1])
              event == Emit(best.transcript, best.confidence, options)
              logEntry == [transcript |-> best.transcript,
                           confidence |-> best.confidence,
                           matched |-> IF event.command = 0
                                       THEN "null"
                                       ELSE VOICE_COMMANDS[event.command].description]
              log == <<logEntry>> \o commandLog
          IN  /\ lastTranscript' = best.transcript
              /\ lastConfidence' = best.confidence
              /\ lastEvents' = <<event>>
              /\ ipc' = RendererOn(event, ipc)
              /\ commandLog' = IF Len(log) > CommandLogCap
                               THEN SubSeq(log, 1, Len(log) - 1)
                               ELSE log
  /\ UNCHANGED options
  /\ UNCHANGED dispVars
  /\ UNCHANGED <<probeVars, mainVars, lifeVars>>

\* the test input of the window: simulateCommand(text, 0.95)
SimulateCommand(text) ==
  /\ handled < cap.results
  /\ Trim(text) # <<>>
  /\ handled' = handled + 1
  /\ LET event == Emit(Trim(text), SimulatedConfidence, options)
     IN  /\ lastEvents' = <<event>>
         /\ ipc' = RendererOn(event, ipc)
  /\ UNCHANGED <<options, lastTranscript, lastConfidence, commandLog>>
  /\ UNCHANGED dispVars
  /\ UNCHANGED <<probeVars, mainVars, lifeVars>>

\* setThreshold
SetThreshold(threshold) ==
  /\ options' = [options EXCEPT !.confidenceThreshold =
                   Max(ThresholdFloor, Min(ThresholdCeiling, threshold))]
  /\ options' # options
  /\ UNCHANGED <<lastTranscript, lastConfidence, commandLog, lastEvents, ipc, handled>>
  /\ UNCHANGED dispVars
  /\ UNCHANGED <<probeVars, mainVars, lifeVars>>

\* setTrainerMode
SetTrainerMode(enabled) ==
  /\ options.trainerMode # enabled
  /\ options' = [options EXCEPT !.trainerMode = enabled]
  /\ UNCHANGED <<lastTranscript, lastConfidence, commandLog, lastEvents, ipc, handled>>
  /\ UNCHANGED dispVars
  /\ UNCHANGED <<probeVars, mainVars, lifeVars>>

\* an execute-command invocation of the renderer arrives in main
ExecuteCommand ==
  /\ ipc # <<>>
  /\ SimulateKeyCall(Head(ipc))
  /\ ipc' = Tail(ipc)
  /\ UNCHANGED <<options, lastTranscript, lastConfidence, commandLog, lastEvents, handled>>
  /\ UNCHANGED <<probeVars, mainVars, lifeVars>>

(***************************************************************************)
(* The normalizer and the matcher applied to one text.                     *)
(***************************************************************************)
ProbeConfidences == {60, 100}

NoProbe == [text |-> <<>>, confidence |-> 0]
NoAnswer == [passes |-> 0, text |-> <<>>, matched |-> FALSE, result |-> NoMatch]

\* no text is given to the normalizer and the matcher on their own
InitNoProbe ==
  /\ probe = NoProbe
  /\ answer = NoAnswer

InitProbe ==
  /\ probe \in [text : ProbeTexts, confidence : ProbeConfidences]
  /\ answer = [NoAnswer EXCEPT !.text = probe.text]

\* convertSpokenNumbers(text.toLowerCase().trim())
NormalizeProbe ==
  /\ answer.passes < MaxPasses
  /\ ~answer.matched
  /\ answer' = [answer EXCEPT !.passes = @ + 1, !.text = Normalize(@)]
  /\ UNCHANGED probe
  /\ UNCHANGED <<dispVars, sessVars, mainVars, lifeVars>>

\* this._matchCommand(normalizedTranscript, confidence)
MatchProbe ==
  /\ answer.passes >= 1
  /\ ~answer.matched
  /\ answer' = [answer EXCEPT !.matched = TRUE,
                              !.result = matchCommand(answer.text, probe.confidence, options)]
  /\ UNCHANGED probe
  /\ UNCHANGED <<dispVars, sessVars, mainVars, lifeVars>>

(***************************************************************************)
(* The lifecycle of the voice session: start, stop, the events of the      *)
(* speech engine, and the automatic restart.  The engine is inactive,      *)
(* starting (start() called, onstart not yet delivered), active, ending    *)
(* (an error was delivered, onend follows) or stopping (stop() called,     *)
(* onend follows); its start() throws unless it is inactive.               *)
(***************************************************************************)
maxRestartAttempts == 5
restartDelay == 1000

\* the errors of the speech engine: three the handler names, and one other
ErrorKinds == {"no-speech", "audio-capture", "not-allowed", "network"}
\* the errors after which onerror asks for a restart
RestartableErrors == {"no-speech", "network"}

StartEvent == [type |-> "start", error |-> "none"]
StopEvent == [type |-> "stop", error |-> "none"]
ErrorEvent(error) == [type |-> "error", error |-> error]

\* the fields of the session a handler of the lifecycle reads and writes
Life ==
  [isListening |-> isListening, recognition |-> recognition,
   restartAttempts |-> restartAttempts, restartTimers |-> restartTimers,
   emitted |-> <<>>, called |-> <<>>]

ApplyLife(l) ==
  /\ isListening' = l.isListening
  /\ recognition' = l.recognition
  /\ restartAttempts' = l.restartAttempts
  /\ restartTimers' = l.restartTimers
  /\ emitted' = l.emitted
  /\ called' = l.called

EmitLife(l, event) == [l EXCEPT !.emitted = Append(@, event)]

\* a delay that doubles with every attempt
DelayDoubling(attempts) == restartDelay * 2 ^ (attempts - 1)

\* const delay = this.restartDelay * this.restartAttempts
Delay(attempts) == restartDelay * attempts

\* a cap that is checked one attempt too late
AttemptRestartLate(l) ==
  IF l.restartAttempts > maxRestartAttempts
  THEN EmitLife(EmitLife([l EXCEPT !.isListening = FALSE],
                         ErrorEvent("disconnected")), StopEvent)
  ELSE [l EXCEPT !.restartAttempts = @ + 1,
                 !.restartTimers = Append(@, [attempt |-> l.restartAttempts + 1,
                                              delay |-> Delay(l.restartAttempts + 1),
                                              remaining |-> Delay(l.restartAttempts + 1)])]

\* _attemptRestart(), up to the setTimeout
AttemptRestart(l) ==
  IF l.restartAttempts >= maxRestartAttempts
  THEN EmitLife(EmitLife([l EXCEPT !.isListening = FALSE],
                         ErrorEvent("disconnected")), StopEvent)
  ELSE [l EXCEPT !.restartAttempts = @ + 1,
                 !.restartTimers = Append(@, [attempt |-> l.restartAttempts + 1,
                                              delay |-> Delay(l.restartAttempts + 1),
                                              remaining |-> Delay(l.restartAttempts + 1)])]

\* recognition.start() of the engine: throws unless the engine is inactive
StartThrows(l) == l.recognition # "inactive"
EngineStart(l) == [l EXCEPT !.recognition = "starting", !.called = Append(@, "start")]

\* recognition.stop() of the engine
EngineStop(l) ==
  [l EXCEPT !.recognition = IF @ \in {"starting", "active"} THEN "stopping" ELSE @,
            !.called = Append(@, "stop")]

\* a handler that may schedule a restart runs while a timer can be added
CanSchedule == Len(restartTimers) < MaxTimers

InitLifecycle ==
  /\ isListening = FALSE
  /\ recognition = "none"
  /\ restartAttempts = 0
  /\ restartTimers = <<>>
  /\ emitted = <<>>
  /\ called = <<>>

\* a start() without the _isListening guard
StartUnguarded ==
  /\ ApplyLife(
       LET initialized == [Life EXCEPT !.recognition =
                             IF @ = "none" THEN "inactive" ELSE @]
           listening == [initialized EXCEPT !.isListening = TRUE]
       IN  IF StartThrows(listening)
           THEN EmitLife([listening EXCEPT !.isListening = FALSE],
                         ErrorEvent("start-failed"))
           ELSE EngineStart(listening))
  /\ UNCHANGED <<dispVars, sessVars, probeVars, mainVars>>

\* start()
Start ==
  /\ ApplyLife(
       IF isListening THEN Life
       ELSE LET initialized == [Life EXCEPT !.recognition =
                                  IF @ = "none" THEN "inactive" ELSE @]
                listening == [initialized EXCEPT !.isListening = TRUE]
            IN  IF StartThrows(listening)
                THEN EmitLife([listening EXCEPT !.isListening = FALSE],
                              ErrorEvent("start-failed"))
                ELSE EngineStart(listening))
  /\ UNCHANGED <<dispVars, sessVars, probeVars, mainVars>>

\* a stop() that also empties the queue of the dispatcher
StopClearsQueue ==
  /\ ApplyLife(
       IF ~isListening THEN Life
       ELSE EmitLife(EngineStop([Life EXCEPT !.isListening = FALSE]), StopEvent))
  /\ commandQueue' = IF isListening THEN <<>> ELSE commandQueue
  /\ UNCHANGED <<now, lastCommandTime, isProcessingQueue, commandHistory, testMode,
                 rateLimitMs, robotAvailable, timers, drainPc, drainWake, calls,
                 submits, invocations, cap>>
  /\ UNCHANGED <<sessVars, probeVars, mainVars>>

\* stop()
Stop ==
  /\ ApplyLife(
       IF ~isListening THEN Life
       ELSE EmitLife(EngineStop([Life EXCEPT !.isListening = FALSE]), StopEvent))
  /\ UNCHANGED <<dispVars, sessVars, probeVars, mainVars>>

\* recognition.onstart
OnStart ==
  /\ recognition = "starting"
  /\ ApplyLife(EmitLife([Life EXCEPT !.recognition = "active",
                                     !.isListening = TRUE,
                                     !.restartAttempts = 0], StartEvent))
  /\ UNCHANGED <<dispVars, sessVars, probeVars, mainVars>>

\* recognition.onend
OnEnd ==
  /\ recognition \in {"active", "ending", "stopping"}
  /\ CanSchedule
  /\ LET ended == [Life EXCEPT !.recognition = "inactive"]
     IN  ApplyLife(IF isListening THEN AttemptRestart(ended)
                   ELSE EmitLife(ended, StopEvent))
  /\ UNCHANGED <<dispVars, sessVars, probeVars, mainVars>>

\* recognition.onerror; the engine delivers onend after it
OnError(error) ==
  /\ recognition \in {"starting", "active"}
  /\ error = "no-speech" => recognition = "active"
  /\ CanSchedule
  /\ LET failed == [Life EXCEPT !.recognition = "ending"]
     IN  ApplyLife(
           IF error = "no-speech"
           THEN IF isListening THEN AttemptRestart(failed) ELSE failed
           ELSE IF error = "audio-capture"
           THEN [EmitLife(failed, ErrorEvent("no-microphone")) EXCEPT !.isListening = FALSE]
           ELSE IF error = "not-allowed"
           THEN [EmitLife(failed, ErrorEvent("access-denied")) EXCEPT !.isListening = FALSE]
           ELSE LET reported == EmitLife(failed, ErrorEvent(error))
                IN  IF isListening THEN AttemptRestart(reported) ELSE reported)
  /\ UNCHANGED <<dispVars, sessVars, probeVars, mainVars>>

RemoveAt(seq, i) == SubSeq(seq, 1, i - 1) \o SubSeq(seq, i + 1, Len(seq))

\* a timer callback that does not look at _isListening
TimerMayStartAlways(l) == l.recognition # "none"

\* if (this._isListening && this.recognition)
TimerMayStart(l) == l.isListening /\ l.recognition # "none"

\* the callback of the setTimeout of _attemptRestart, for a timer that is due
RestartTimer(i) ==
  /\ i \in 1..Len(restartTimers)
  /\ restartTimers[i].remaining = 0
  /\ LET fired == [Life EXCEPT !.restartTimers = RemoveAt(@, i)]
     IN  ApplyLife(
           IF TimerMayStart(fired)
           THEN IF StartThrows(fired) THEN AttemptRestart(fired) ELSE EngineStart(fired)
           ELSE fired)
  /\ UNCHANGED <<dispVars, sessVars, probeVars, mainVars>>

\* restartDelay milliseconds pass; a timer that is due runs before more time passes
Wait ==
  /\ restartTimers # <<>>
  /\ \A i \in 1..Len(restartTimers) : restartTimers[i].remaining > 0
  /\ restartTimers' = [i \in 1..Len(restartTimers) |->
                         [restartTimers[i] EXCEPT !.remaining = @ - restartDelay]]
  /\ emitted' = <<>>
  /\ called' = <<>>
  /\ UNCHANGED <<isListening, recognition, restartAttempts>>
  /\ UNCHANGED <<dispVars, sessVars, probeVars, mainVars>>

(***************************************************************************)
(* Trainer mode: the checkbox of the settings window, the set-trainer-mode *)
(* message to main, and the item of the tray menu.                         *)
(***************************************************************************)
\* the change listener of the checkbox: the click has flipped the checkbox;
\* voiceRecognition.setTrainerMode(enabled), electronAPI.setTrainerMode(enabled)
TrainerModeChange ==
  /\ Len(settingsIpc) < MaxSettingsIpc
  /\ LET enabled == ~trainerModeChecked
     IN  /\ trainerModeChecked' = enabled
         /\ options' = [options EXCEPT !.trainerMode = enabled]
         /\ settingsIpc' = Append(settingsIpc, enabled)
  /\ UNCHANGED voiceSettings
  /\ UNCHANGED <<lastTranscript, lastConfidence, commandLog, lastEvents, ipc, handled>>
  /\ UNCHANGED <<dispVars, probeVars, lifeVars>>

\* ipcMain.on('set-trainer-mode')
SetTrainerModeIpc ==
  /\ settingsIpc # <<>>
  /\ voiceSettings' = [voiceSettings EXCEPT !.trainerMode = Head(settingsIpc)]
  /\ settingsIpc' = Tail(settingsIpc)
  /\ UNCHANGED trainerModeChecked
  /\ UNCHANGED <<dispVars, sessVars, probeVars, lifeVars>>

\* the click handler of the tray menu item: the voice-settings-changed
\* message it sends to the window has no listener there
TrayTrainerMode ==
  /\ voiceSettings' = [voiceSettings EXCEPT !.trainerMode = ~@]
  /\ UNCHANGED <<trainerModeChecked, settingsIpc>>
  /\ UNCHANGED <<dispVars, sessVars, probeVars, lifeVars>>

(***************************************************************************)
(* The rate limit setter of the dispatcher.                                *)
(***************************************************************************)
RateLimitFloor == 100

\* the values setRateLimit is called with
RateLimitInputs == {50, 150, 2500}

\* setRateLimit without the lower clamp
SetRateLimitNoFloor(ms) ==
  /\ rateLimitMs' = Min(RateLimitCeiling, ms)
  /\ UNCHANGED <<now, lastCommandTime, commandQueue, isProcessingQueue,
                 commandHistory, testMode, robotAvailable, timers, drainPc,
                 drainWake, calls, submits, invocations, cap>>
  /\ UNCHANGED sessVars
  /\ UNCHANGED <<probeVars, mainVars, lifeVars>>

\* setRateLimit: Math.max(100, Math.min(2000, ms))
SetRateLimit(ms) ==
  /\ rateLimitMs' = Max(RateLimitFloor, Min(RateLimitCeiling, ms))
  /\ UNCHANGED <<now, lastCommandTime, commandQueue, isProcessingQueue,
                 commandHistory, testMode, robotAvailable, timers, drainPc,
                 drainWake, calls, submits, invocations, cap>>
  /\ UNCHANGED sessVars
  /\ UNCHANGED <<probeVars, mainVars, lifeVars>>

(***************************************************************************)
(* Specifications.                                                         *)
(***************************************************************************)
\* the dispatcher driven through execute-command, test mode off
Init ==
  /\ InitDispatcher
  /\ InitSession
  /\ InitMain
  /\ InitNoProbe
  /\ InitLifecycle
  /\ cap \in Caps

Next ==
  \/ \E key \in Keys : SimulateKey(key)
  \/ \E call \in calls, outcome \in {"ok", "fail", "throw"} : KeyPressDone(call, outcome)
  \/ \E t \in timers : QueueTimer(t)
  \/ DrainWake
  \/ Tick

Spec == Init /\ [][Next]_vars

\* the same with the test mode switch of the tray menu and settings window
InitTestMode ==
  /\ InitDispatcher
  /\ InitSession
  /\ InitMain
  /\ InitNoProbe
  /\ InitLifecycle
  /\ cap \in TestModeCaps

NextTestMode ==
  \/ Next
  \/ \E enabled \in BOOLEAN : SetTestMode(enabled)

SpecTestMode == InitTestMode /\ [][NextTestMode]_vars

\* the session with the dispatcher behind it.  With MaxResults dispatches the
\* queue never holds an entry whose window has not elapsed when processQueue
\* runs, so the loop never sleeps.
InitSessionRun ==
  /\ InitDispatcher
  /\ InitSession
  /\ InitMain
  /\ InitNoProbe
  /\ InitLifecycle
  /\ cap \in SessionCaps

NextSession ==
  \/ \E result \in Results : HandleResult(result)
  \/ \E text \in Transcripts : SimulateCommand(text)
  \/ \E threshold \in ThresholdInputs : SetThreshold(threshold)
  \/ \E enabled \in BOOLEAN : SetTrainerMode(enabled)
  \/ ExecuteCommand
  \/ \E call \in calls, outcome \in {"ok", "fail", "throw"} : KeyPressDone(call, outcome)
  \/ \E t \in timers : QueueTimer(t)
  \/ Tick

SpecSession == InitSessionRun /\ [][NextSession]_vars

\* the normalizer and the matcher on their own
InitMatcher ==
  /\ InitDispatcher
  /\ InitSession
  /\ InitMain
  /\ InitProbe
  /\ InitLifecycle
  /\ cap \in SessionCaps

NextMatcher ==
  \/ NormalizeProbe
  \/ MatchProbe

SpecMatcher == InitMatcher /\ [][NextMatcher]_vars

\* the lifecycle of the voice session
InitLife ==
  /\ InitDispatcher
  /\ InitSession
  /\ InitMain
  /\ InitNoProbe
  /\ InitLifecycle
  /\ cap \in SessionCaps

NextLife ==
  \/ Start
  \/ Stop
  \/ OnStart
  \/ OnEnd
  \/ \E error \in ErrorKinds : OnError(error)
  \/ \E i \in 1..MaxTimers : RestartTimer(i)
  \/ Wait

SpecLife == InitLife /\ [][NextLife]_vars

\* the session left to restart on its own: the user starts it and does not
\* stop it, and the engine ends or fails with errors that are restarted.  The
\* engine delivers onstart after a start() that did not throw and, by and by,
\* ends; a restart timer that is due runs, and time passes.
NextRestart ==
  \/ Start
  \/ OnStart
  \/ OnEnd
  \/ \E error \in RestartableErrors : OnError(error)
  \/ \E i \in 1..MaxTimers : RestartTimer(i)
  \/ Wait

FairRestart ==
  /\ WF_vars(OnStart)
  /\ WF_vars(OnEnd)
  /\ WF_vars(\E i \in 1..MaxTimers : RestartTimer(i))
  /\ WF_vars(Wait)

SpecRestart == InitLife /\ [][NextRestart]_vars /\ FairRestart

\* the dispatcher left to drain while the session is started and stopped.
\* Timers that are due fire, sleeps end, the executor returns from every key
\* press, and time passes.
DrainCaps == {[submits |-> DrainSubmits, ticks |-> DrainHorizon, results |-> 0]}

InitDrain ==
  /\ InitDispatcher
  /\ InitSession
  /\ InitMain
  /\ InitNoProbe
  /\ InitLifecycle
  /\ cap \in DrainCaps

NextDrain ==
  \/ \E key \in Keys : SimulateKey(key)
  \/ \E call \in calls, outcome \in {"ok", "fail", "throw"} : KeyPressDone(call, outcome)
  \/ \E t \in timers : QueueTimer(t)
  \/ DrainWake
  \/ Tick
  \/ TickOver
  \/ Start
  \/ OnStart
  \/ Stop

FairDrain ==
  /\ WF_vars(\E call \in calls, outcome \in {"ok", "fail", "throw"} : KeyPressDone(call, outcome))
  /\ WF_vars(\E t \in timers : QueueTimer(t))
  /\ WF_vars(DrainWake)
  /\ WF_vars(Tick)
  /\ WF_vars(TickOver)

SpecDrain == InitDrain /\ [][NextDrain]_vars /\ FairDrain

\* the dispatcher with its rate limit set while it runs
RateSubmits == 3
RateTicks == 6
RateCaps == {[submits |-> RateSubmits, ticks |-> RateTicks, results |-> 0]}

InitRate ==
  /\ InitDispatcher
  /\ InitSession
  /\ InitMain
  /\ InitNoProbe
  /\ InitLifecycle
  /\ cap \in RateCaps

NextRate ==
  \/ \E key \in Keys : SimulateKey(key)
  \/ \E call \in calls, outcome \in {"ok", "fail", "throw"} : KeyPressDone(call, outcome)
  \/ \E t \in timers : QueueTimer(t)
  \/ DrainWake
  \/ \E ms \in RateLimitInputs : SetRateLimit(ms)
  \/ Tick

SpecRate == InitRate /\ [][NextRate]_vars

\* the session constructed with options of the caller's choosing
OptionDefaults ==
  [confidenceThreshold |-> DefaultConfidenceThreshold,
   trainerMode |-> FALSE,
   trainerModeThreshold |-> TrainerModeThreshold,
   lowConfidenceThreshold |-> LowConfidenceThreshold]

\* the options object given to new VoiceRecognition(options)
CallerOptions ==
  {[confidenceThreshold |-> 75], [confidenceThreshold |-> 30],
   [confidenceThreshold |-> 120], [trainerMode |-> TRUE]}

\* { ...defaults, ...options }
Spread(supplied, field) ==
  IF field \in DOMAIN supplied THEN supplied[field] ELSE OptionDefaults[field]

\* constructor(options)
Constructor(supplied) ==
  [confidenceThreshold |-> Spread(supplied, "confidenceThreshold"),
   trainerMode |-> Spread(supplied, "trainerMode"),
   trainerModeThreshold |-> Spread(supplied, "trainerModeThreshold"),
   lowConfidenceThreshold |-> Spread(supplied, "lowConfidenceThreshold")]

InitConstruct ==
  /\ InitDispatcher
  /\ \E supplied \in CallerOptions : options = Constructor(supplied)
  /\ lastTranscript = <<>>
  /\ lastConfidence = 0
  /\ commandLog = <<>>
  /\ lastEvents = <<>>
  /\ ipc = <<>>
  /\ handled = 0
  /\ InitMain
  /\ InitNoProbe
  /\ InitLifecycle
  /\ cap \in SessionCaps

NextConstruct ==
  \/ \E result \in Results \cup RankedResults : HandleResult(result)
  \/ \E threshold \in ThresholdInputs : SetThreshold(threshold)
  \/ \E enabled \in BOOLEAN : SetTrainerMode(enabled)

SpecConstruct == InitConstruct /\ [][NextConstruct]_vars

\* many calls within one tick of the clock, so that the history fills: the
\* calls made before test mode is switched on are executed, queued or dropped,
\* those made after it are logged only; the executor does not throw
HistorySubmits == 57
HistoryCaps == {[submits |-> HistorySubmits, ticks |-> 0, results |-> 0]}

InitHistory ==
  /\ InitDispatcher
  /\ InitSession
  /\ InitMain
  /\ InitNoProbe
  /\ InitLifecycle
  /\ cap \in HistoryCaps

NextHistory ==
  \/ \E key \in Keys : SimulateKey(key)
  \/ \E call \in calls, outcome \in {"ok", "fail"} : KeyPressDone(call, outcome)
  \/ SetTestMode(TRUE)

SpecHistory == InitHistory /\ [][NextHistory]_vars

\* the dispatcher with the key test of the settings window and test mode
TestKeySubmits == 3
TestKeyTicks == 8
TestKeyCaps == {[submits |-> TestKeySubmits, ticks |-> TestKeyTicks, results |-> 0]}

InitTestKey ==
  /\ InitDispatcher
  /\ InitSession
  /\ InitMain
  /\ InitNoProbe
  /\ InitLifecycle
  /\ cap \in TestKeyCaps

NextTestKey ==
  \/ NextTestMode
  \/ \E key \in Keys : TestKey(key)

SpecTestKey == InitTestKey /\ [][NextTestKey]_vars

\* a long session in which the speaker repeats one phrase: every result has
\* the transcript, and every final one the confidence, of the final result
\* before it
LogResults == 52
LogCaps == {[submits |-> 0, ticks |-> 0, results |-> LogResults]}

Repeats(result) ==
  IF commandLog = <<>>
  THEN TRUE
  ELSE LET best == BestAlternative(result.alternatives, 2, result.alternatives[1])
       IN  /\ best.transcript = Head(commandLog).transcript
           /\ result.isFinal => best.confidence = Head(commandLog).confidence

InitLog ==
  /\ InitDispatcher
  /\ InitSession
  /\ InitMain
  /\ InitNoProbe
  /\ InitLifecycle
  /\ cap \in LogCaps

NextLog ==
  \/ \E result \in Results : Repeats(result) /\ HandleResult(result)
  \/ \E enabled \in BOOLEAN : SetTrainerMode(enabled)

SpecLog == InitLog /\ [][NextLog]_vars

\* the session given transcripts without a word, with the matcher applied
\* to the same texts on its own
BlankTicks == 6
BlankCaps == {[submits |-> MaxResults, ticks |-> BlankTicks, results |-> MaxResults]}
BlankResults ==
  [isFinal : {TRUE},
   alternatives : {<<[transcript |-> t, confidence |-> c]>> :
                     t \in BlankTexts, c \in Confidences}]

InitBlank ==
  /\ InitDispatcher
  /\ InitSession
  /\ InitMain
  /\ probe \in [text : BlankTexts, confidence : Confidences]
  /\ answer = [NoAnswer EXCEPT !.text = probe.text]
  /\ InitLifecycle
  /\ cap \in BlankCaps

NextBlank ==
  \/ NormalizeProbe
  \/ MatchProbe
  \/ \E result \in BlankResults : HandleResult(result)
  \/ \E enabled \in BOOLEAN : SetTrainerMode(enabled)
  \/ ExecuteCommand
  \/ \E call \in calls, outcome \in {"ok", "fail", "throw"} : KeyPressDone(call, outcome)
  \/ \E t \in timers : QueueTimer(t)
  \/ Tick

SpecBlank == InitBlank /\ [][NextBlank]_vars

\* the session with trainer mode switched from the window and from the tray
TrainerCaps == {[submits |-> 0, ticks |-> 0, results |-> TrainerResults]}

InitTrainer ==
  /\ InitDispatcher
  /\ InitSession
  /\ InitMain
  /\ InitNoProbe
  /\ InitLifecycle
  /\ cap \in TrainerCaps

NextTrainer ==
  \/ TrainerModeChange
  \/ SetTrainerModeIpc
  \/ TrayTrainerMode
  \/ \E result \in Results : HandleResult(result)

SpecTrainer == InitTrainer /\ [][NextTrainer]_vars

(***************************************************************************)
(* Properties of the dispatcher.                                           *)
(***************************************************************************)

Ids(seq) == {seq[i].id : i \in 1..Len(seq)}

\* a step in which simulateKey is called from execute-command
IsSubmit == /\ Len(submits') = Len(submits) + 1
            /\ submits'[Len(submits')].op = "simulateKey"

NewId == Len(submits) + 1

NoExecutorFailure ==
  \A i \in 1..Len(submits) : submits[i].result \notin {"failed", "error"}

Drained == SelectSeq(invocations, LAMBDA v : v.via = "drain")

\* C1: of the first three simulateKey calls, made within less than
\* rateLimitMs of one another from the initial state (empty queue, rate window
\* elapsed, test mode off) and with no executor failure, the first is the only
\* one handed to the executor at once, the second and third are queued, and
\* they are pressed later in that order.
C1_ThreeRapidSubmits ==
  (/\ Len(submits) >= 2
   /\ now - StartTime < rateLimitMs
   /\ ~testMode
   /\ NoExecutorFailure)
  => /\ \A i \in 2..Min(3, Len(submits)) : submits[i].result = "queued"
     /\ \A i \in 1..Len(invocations) :
          invocations[i].id <= 3 =>
            (invocations[i].via = "direct") = (invocations[i].id = 1)
     /\ \A i, j \in 1..Len(Drained) : i < j => Drained[i].id < Drained[j].id

\* C2: any two consecutive key presses handed to the executor by simulateKey
\* begin at least rateLimitMs apart.
C2_MinSpacing ==
  \A i \in 1..(Len(invocations) - 1) :
    invocations[i + 1].at - invocations[i].at >= rateLimitMs

\* C3: at most one key press is in flight at any time.
C3_OneInFlight == Cardinality(calls) <= 1

\* C4: a simulateKey call that arrives with test mode off, the rate window
\* active and the queue full returns the queue-full failure, logs it, changes
\* neither the queue nor lastCommandTime nor the set of key presses, and its
\* action is never handed to the executor or queued later.
C4_NeverExecuted ==
  \A id \in 1..Len(submits) :
    submits[id].result = "dropped" =>
      /\ id \notin Ids(commandQueue)
      /\ id \notin Ids(invocations)
      /\ id \notin {c.id : c \in calls}

C4_DropStep ==
  (/\ IsSubmit
   /\ ~testMode
   /\ now - lastCommandTime < rateLimitMs
   /\ Len(commandQueue) >= MaxQueueSize)
  => /\ submits'[NewId].result = "dropped"
     /\ commandQueue' = commandQueue
     /\ lastCommandTime' = lastCommandTime
     /\ invocations' = invocations
     /\ calls' = calls
     /\ Head(commandHistory') = Entry(NewId, submits'[NewId].key, FALSE, "dropped")

C4_QueueFullDrop == [][C4_DropStep]_vars /\ []C4_NeverExecuted

C4_Witness ==
  /\ Len(submits) > 0
  /\ submits[Len(submits)].result = "dropped"
  /\ Len(commandQueue) = MaxQueueSize
  /\ Len(commandHistory) > 0
  /\ Head(commandHistory).kind = "dropped"

\* C5: queued actions are handed to the executor in the order in which they
\* were queued: the drained key presses are in submission order, and every
\* action still waiting was queued after every action already drained.
C5_Fifo ==
  /\ \A i, j \in 1..Len(Drained) : i < j => Drained[i].id < Drained[j].id
  /\ \A i \in 1..Len(Drained) : \A j \in 1..Len(commandQueue) :
       Drained[i].id < commandQueue[j].id
  /\ \A i, j \in 1..Len(commandQueue) :
       i < j => commandQueue[i].id < commandQueue[j].id

C5_Witness ==
  /\ Len(Drained) >= 2
  /\ \E i \in 1..Len(submits) : submits[i].result = "pressed" /\ i \in Ids(Drained)

\* C6: while test mode is on, every simulateKey call returns the test mode
\* success, puts exactly one test mode entry at the head of the history, and
\* leaves lastCommandTime, the queue, the drain and the key presses as they
\* were, whatever the rate window and the queue length.
C6_TestModeStep ==
  (IsSubmit /\ testMode)
  => /\ submits'[NewId].result = "test"
     /\ Head(commandHistory') = Entry(NewId, submits'[NewId].key, TRUE, "test")
     /\ Len(commandHistory') = Min(Len(commandHistory) + 1, MAX_HISTORY)
     /\ SubSeq(commandHistory', 2, Len(commandHistory'))
          = SubSeq(commandHistory, 1, Len(commandHistory') - 1)
     /\ lastCommandTime' = lastCommandTime
     /\ commandQueue' = commandQueue
     /\ invocations' = invocations
     /\ calls' = calls
     /\ timers' = timers
     /\ isProcessingQueue' = isProcessingQueue
     /\ drainPc' = drainPc

C6_TestModeSubmit == [][C6_TestModeStep]_vars

C6_Witness ==
  /\ testMode
  /\ Len(submits) > 0
  /\ submits[Len(submits)].result = "test"
  /\ Head(commandHistory).kind = "test"
  /\ Len(commandQueue) = MaxQueueSize
  /\ now - lastCommandTime < rateLimitMs

(***************************************************************************)
(* Properties of the session.                                              *)
(***************************************************************************)

\* a step in which a final transcript or a simulated one is handled
IsFinal == /\ handled' = handled + 1
           /\ lastEvents'[1].type # "interim"

\* the matcher finds a candidate for a normalized transcript
HasCandidate(normalizedTranscript) ==
  MatchTable[FALSE][normalizedTranscript].found

\* C7: a transcript whose confidence is below lowConfidenceThreshold is
\* answered with noMatch and no command, whether or not a phrase matches it
\* and whatever trainerMode and confidenceThreshold are.
C7_Step ==
  (IsFinal /\ lastEvents'[1].confidence < options.lowConfidenceThreshold)
  => /\ lastEvents'[1].type = "noMatch"
     /\ lastEvents'[1].command = 0
     /\ ipc' = ipc

C7_BelowFloorRejected == [][C7_Step]_vars

C7_Witness ==
  /\ handled > 0
  /\ lastEvents[1].type = "noMatch"
  /\ lastEvents[1].confidence < options.lowConfidenceThreshold
  /\ lastEvents[1].confidence >= options.confidenceThreshold
  /\ ~options.trainerMode
  /\ HasCandidate(lastEvents[1].normalizedTranscript)

\* C8: a transcript whose confidence is at least lowConfidenceThreshold and
\* for which the matcher finds a candidate is answered with the command event
\* when the confidence is at least the effective threshold
\* (trainerModeThreshold in trainer mode, confidenceThreshold otherwise) and
\* with the lowConfidence event otherwise; either event names the candidate.
C8_EffectiveThreshold ==
  IF options.trainerMode
  THEN options.trainerModeThreshold
  ELSE options.confidenceThreshold

C8_Step ==
  (/\ IsFinal
   /\ lastEvents'[1].confidence >= options.lowConfidenceThreshold
   /\ HasCandidate(lastEvents'[1].normalizedTranscript))
  => /\ lastEvents'[1].type =
          IF lastEvents'[1].confidence >= C8_EffectiveThreshold
          THEN "command"
          ELSE "lowConfidence"
     /\ lastEvents'[1].command =
          MatchTable[FALSE][lastEvents'[1].normalizedTranscript].command

C8_GateOutcome == [][C8_Step]_vars

C8_Witness ==
  /\ handled > 0
  /\ lastEvents[1].type = "lowConfidence"
  /\ options.trainerMode
  /\ lastEvents[1].confidence >= options.confidenceThreshold
  /\ lastEvents[1].confidence < options.trainerModeThreshold

\* C9: for every transcript and confidence, and the options as they are, a
\* transcript that is executed with trainer mode on is also executed with
\* trainer mode off.
C9_TrainerNeverLowers ==
  \A t \in Transcripts, c \in Confidences :
    Emit(t, c, [options EXCEPT !.trainerMode = TRUE]).type = "command"
    => Emit(t, c, [options EXCEPT !.trainerMode = FALSE]).type = "command"

\* C10: handling a final transcript sends one execute-command invocation
\* with the key of the matched command when the event is command and none
\* otherwise, and calls simulateKey itself never; every simulateKey call takes
\* the oldest invocation sent and carries its key; nothing else sends or
\* takes an invocation.
C10_Step ==
  /\ IsFinal
     => /\ Len(submits') = Len(submits)
        /\ ipc' = IF lastEvents'[1].type = "command"
                  THEN Append(ipc, VOICE_COMMANDS[lastEvents'[1].command].key)
                  ELSE ipc
  /\ Len(submits') # Len(submits)
     => /\ ipc # <<>>
        /\ Len(submits') = Len(submits) + 1
        /\ submits'[NewId].op = "simulateKey"
        /\ submits'[NewId].key = Head(ipc)
        /\ ipc' = Tail(ipc)
  /\ (~IsFinal /\ Len(submits') = Len(submits)) => ipc' = ipc

C10_DispatchOnlyOnExecute == [][C10_Step]_vars

C10_Witness ==
  /\ handled = 2
  /\ Len(submits) = 1
  /\ ipc = <<>>
  /\ lastEvents[1].type = "lowConfidence"
  /\ \E i \in 1..Len(commandLog) :
       /\ commandLog[i].matched # "null"
       /\ \E c \in 1..Len(VOICE_COMMANDS) :
            /\ VOICE_COMMANDS[c].description = commandLog[i].matched
            /\ VOICE_COMMANDS[c].key = submits[1].key

(***************************************************************************)
(* Properties of the normalizer and the matcher.                           *)
(***************************************************************************)
FullConfidence == probe.confidence = 100

\* C11: for every phrase of the registry, matching the normalized phrase at
\* confidence 1.0 returns a candidate with score 0.
C11_RegisteredPhraseExact ==
  (probe.text \in RegistryPhrases /\ FullConfidence /\ answer.matched /\ answer.passes = 1)
  => (answer.result.found /\ answer.result.score = 0)

\* the command/phrase pairs of the registry, and the order in which the
\* matcher visits them: commands by ascending priority, commands of one
\* priority in registry order, the phrases of a command in their order
Pairs ==
  UNION {{[command |-> c, k |-> k] : k \in 1..Len(VOICE_COMMANDS[c].phrases)} :
           c \in 1..Len(VOICE_COMMANDS)}
PhraseOf(pair) == VOICE_COMMANDS[pair.command].phrases[pair.k]
PriorityOf(pair) == VOICE_COMMANDS[pair.command].priority
Before(p, q) ==
  \/ PriorityOf(p) < PriorityOf(q)
  \/ PriorityOf(p) = PriorityOf(q) /\ p.command < q.command
  \/ p.command = q.command /\ p.k < q.k

\* the substring rule and the fuzzy rule for a transcript and a pair
SubstringQualifies(t, pair) == Includes(t, PhraseOf(pair)) \/ Includes(PhraseOf(pair), t)
SubstringScore(t, pair) == Abs(Len(t) - Len(PhraseOf(pair)))
Distance(t, pair) == levenshteinDistance(t, PhraseOf(pair))
WithinFuzzyBound(d, pair) == d <= 2 \/ d * 10 <= Len(PhraseOf(pair)) * 3
FuzzyQualifies(t, pair) == WithinFuzzyBound(Distance(t, pair), pair)
Qualifies(t, pair) == SubstringQualifies(t, pair) \/ FuzzyQualifies(t, pair)

\* the matcher has searched the registry for the normalized probe
Searched ==
  /\ answer.matched
  /\ probe.confidence >= options.lowConfidenceThreshold

\* C12: when the normalized transcript equals a registered phrase and the
\* confidence is at or above the low floor, the matcher returns score 0, the
\* transcript as matched phrase, and the first command in ascending priority
\* order that lists the phrase.
C12_ExactShortCircuit ==
  (Searched /\ answer.text \in RegistryPhrases)
  => /\ answer.result.found
     /\ answer.result.score = 0
     /\ answer.result.matchedPhrase = answer.text
     /\ \E pair \in Pairs :
          /\ PhraseOf(pair) = answer.text
          /\ pair.command = answer.result.command
          /\ \A other \in Pairs : PhraseOf(other) = answer.text => ~Before(other, pair)

\* an exact match returned although an earlier pair had already qualified
C12_Witness ==
  /\ Searched
  /\ answer.text \in RegistryPhrases
  /\ answer.result.score = 0
  /\ \E pair, earlier \in Pairs :
       /\ PhraseOf(pair) = answer.text
       /\ Before(earlier, pair)
       /\ Qualifies(answer.text, earlier)

\* the candidate came from the pair by the fuzzy rule: its score is the
\* distance, and the substring rule does not give the pair that score
ByFuzzyRule(t, pair) ==
  /\ answer.result.found
  /\ answer.result.command = pair.command
  /\ answer.result.matchedPhrase = PhraseOf(pair)
  /\ answer.result.score = Distance(t, pair)
  /\ ~(SubstringQualifies(t, pair) /\ SubstringScore(t, pair) = Distance(t, pair))

\* C13: a pair is accepted by the fuzzy rule exactly when its distance d is at
\* most max(2, floor(len(phrase) * 0.3)): a candidate that comes from the fuzzy
\* rule is within the bound, and when no phrase equals the transcript every pair
\* within the bound is among the candidates, so that a match is returned and
\* its score is at most d; a pair whose distance is above the bound is never
\* returned through the fuzzy rule.
C13_FuzzyBound ==
  Searched =>
    \A pair \in Pairs :
      LET d == Distance(answer.text, pair)
          maxDistance == Max(2, (Len(PhraseOf(pair)) * 3) \div 10)
      IN  /\ ByFuzzyRule(answer.text, pair) => d <= maxDistance
          /\ (d <= maxDistance /\ answer.text \notin RegistryPhrases)
             => (answer.result.found /\ answer.result.score <= d)

\* a pair whose distance is exactly its bound, above 2, is returned by the
\* fuzzy rule
C13_Witness ==
  /\ Searched
  /\ \E pair \in Pairs :
       /\ ByFuzzyRule(answer.text, pair)
       /\ Distance(answer.text, pair) = Max(2, (Len(PhraseOf(pair)) * 3) \div 10)
       /\ Distance(answer.text, pair) > 2

\* the score of a qualifying pair: the substring score when the substring rule
\* applies and the fuzzy rule gives nothing lower, else the distance
PairScore(t, pair) ==
  IF SubstringQualifies(t, pair)
     /\ (FuzzyQualifies(t, pair) => SubstringScore(t, pair) <= Distance(t, pair))
  THEN SubstringScore(t, pair)
  ELSE Distance(t, pair)

\* the scores of the qualifying pairs
Scores(t) == [pair \in {p \in Pairs : Qualifies(t, p)} |-> PairScore(t, pair)]
IsMinimum(scores, pair) == \A other \in DOMAIN scores : scores[pair] <= scores[other]

CommandBefore(c, d) ==
  \/ VOICE_COMMANDS[c].priority < VOICE_COMMANDS[d].priority
  \/ VOICE_COMMANDS[c].priority = VOICE_COMMANDS[d].priority /\ c < d

\* C14: among the commands that have a qualifying phrase of the lowest score,
\* the matcher returns the one with the lowest priority number, and among
\* those of equal priority the one that is earliest in the registry.
C14_PriorityTieBreak ==
  Searched =>
    LET scores == Scores(answer.text)
    IN  \A pair \in DOMAIN scores :
          IsMinimum(scores, pair)
          => /\ answer.result.found
             /\ ~CommandBefore(pair.command, answer.result.command)

\* two commands of different priority have qualifying phrases of the same,
\* lowest, score and the one of the lower priority number is returned
C14_Witness ==
  /\ Searched
  /\ answer.result.found
  /\ LET scores == Scores(answer.text)
     IN  \E p, q \in DOMAIN scores :
           /\ IsMinimum(scores, p)
           /\ scores[q] = scores[p]
           /\ p.command = answer.result.command
           /\ VOICE_COMMANDS[p.command].priority < VOICE_COMMANDS[q.command].priority

\* C15: when no phrase equals the transcript, the matcher returns null exactly
\* when no pair qualifies under the substring rule or the fuzzy rule, and
\* otherwise returns a qualifying pair whose score is the lowest of the
\* substring scores and accepted distances of all qualifying pairs.
C15_BestOrNull ==
  (Searched /\ answer.text \notin RegistryPhrases)
  => LET scores == Scores(answer.text)
     IN  /\ ~answer.result.found <=> DOMAIN scores = {}
         /\ answer.result.found
            => \E pair \in DOMAIN scores :
                 /\ PhraseOf(pair) = answer.result.matchedPhrase
                 /\ answer.result.score = scores[pair]
                 /\ IsMinimum(scores, pair)

\* the returned pair qualifies by the fuzzy rule only, and its distance is
\* lower than the score of another pair that qualifies by the substring rule
C15_Witness ==
  /\ Searched
  /\ answer.text \notin RegistryPhrases
  /\ answer.result.found
  /\ \E p, q \in Pairs :
       /\ PhraseOf(p) = answer.result.matchedPhrase
       /\ ~SubstringQualifies(answer.text, p)
       /\ answer.result.score = Distance(answer.text, p)
       /\ SubstringQualifies(answer.text, q)
       /\ SubstringScore(answer.text, q) > answer.result.score

NormalizeStep == answer.passes < answer'.passes

\* C17: normalizing a text that is already normalized leaves it as it is.
C17_Step == (NormalizeStep /\ answer.passes >= 1) => answer'.text = answer.text

C17_NormalizeIdempotent == [][C17_Step]_vars

\* a text with capitals, blanks at its ends and a spoken number, normalized
\* twice
C17_Witness ==
  /\ answer.passes = MaxPasses
  /\ Len(answer.text) < Len(Trim(probe.text))
  /\ Trim(probe.text) # probe.text
  /\ ToLowerCase(probe.text) # probe.text

(***************************************************************************)
(* Properties of the lifecycle of the voice session.                       *)
(***************************************************************************)
FatalEvent == ErrorEvent("disconnected")
Emitted(event) == \E n \in 1..Len(emitted) : emitted[n] = event

\* a step in which the session asks for a restart: the engine ends or fails
\* with an error that is restarted while the session is listening, or the
\* start() of a restart timer throws
RestartRequested ==
  /\ isListening
  /\ \/ OnEnd
     \/ \E error \in RestartableErrors : OnError(error)
     \/ \E i \in 1..Len(restartTimers) : RestartTimer(i) /\ recognition \notin {"none", "inactive"}

\* C18: restartAttempts never exceeds maxRestartAttempts, and a restart asked
\* for with restartAttempts = maxRestartAttempts leaves the session not
\* listening, emits the fatal error and a stop event, and schedules no restart.
C18_Step ==
  (RestartRequested /\ restartAttempts = maxRestartAttempts)
  => /\ ~isListening'
     /\ \E n \in 1..Len(emitted') :
          /\ emitted'[n] = FatalEvent
          /\ \E m \in (n + 1)..Len(emitted') : emitted'[m] = StopEvent
     /\ Len(restartTimers') <= Len(restartTimers)
     /\ \A n \in 1..Len(restartTimers') :
          \E m \in 1..Len(restartTimers) : restartTimers'[n] = restartTimers[m]
     /\ called' = <<>>
     /\ restartAttempts' = restartAttempts

C18_RestartsCapped ==
  /\ [](restartAttempts <= maxRestartAttempts)
  /\ [][C18_Step]_vars

\* the cap was reached and the session gave up
C18_Witness ==
  /\ restartAttempts = maxRestartAttempts
  /\ ~isListening
  /\ Emitted(FatalEvent)
  /\ Emitted(StopEvent)

\* C19: a session that is listening, whose engine ends after every start and
\* restart, stops restarting: it comes to be not listening with the fatal error
\* emitted.
C19_RestartsEnd == isListening ~> (~isListening /\ Emitted(FatalEvent))

\* two restart timers are pending for attempts that follow one another
Consecutive(n, m) ==
  /\ n \in 1..Len(restartTimers)
  /\ m \in 1..Len(restartTimers)
  /\ restartTimers[m].attempt = restartTimers[n].attempt + 1

Called(call) == \E n \in 1..Len(called) : called[n] = call

\* the session is not listening and its engine is not running: the states
\* stop() leaves behind, and those that follow them until start() is called
Stopped ==
  /\ ~isListening
  /\ recognition \in {"inactive", "ending", "stopping"}

\* C21: stop() called while listening leaves the session not listening with
\* the engine's stop requested; from then on, until start() is called, no end
\* or error event and no restart timer calls the engine's start, schedules a
\* restart or makes the session listen again.
C21_Step ==
  /\ (isListening /\ Stop) => (Stopped' /\ called' = <<"stop">>)
  /\ (Stopped /\ ~Start)
     => /\ Stopped'
        /\ \A n \in 1..Len(called') : called'[n] # "start"
        /\ \A n \in 1..Len(restartTimers') :
             \E m \in 1..Len(restartTimers) :
               restartTimers'[n].attempt = restartTimers[m].attempt

StopStep == isListening /\ ~isListening' /\ called' = <<"stop">>

\* C22: stopping the session leaves the queue, lastCommandTime, the drain
\* flag, the drain's timers and sleep and the key presses in flight as they
\* are, and every action that is in the queue while the session is stopped is
\* handed to the executor later.
C22_StopFrame ==
  StopStep => UNCHANGED <<commandQueue, lastCommandTime, isProcessingQueue, timers,
                          drainPc, drainWake, calls, commandHistory>>

C22_DrainIgnoresListening ==
  /\ [][C22_StopFrame]_vars
  /\ \A id \in 1..DrainSubmits :
       (id \in Ids(commandQueue) /\ ~isListening /\ Called("stop"))
         ~> (id \in Ids(invocations) /\ id \notin Ids(commandQueue))

\* stop() has just stopped the session with two actions in the queue
C22_Witness ==
  /\ ~isListening
  /\ Called("stop")
  /\ Len(commandQueue) >= 2

\* the value setRateLimit(ms) is documented to store
Clamped(ms) == Min(RateLimitCeiling, Max(RateLimitFloor, ms))

\* the rate limit is changed only by setRateLimit(ms), to the clamped ms
C23_SetStep ==
  /\ \A ms \in RateLimitInputs : SetRateLimit(ms) => rateLimitMs' = Clamped(ms)
  /\ rateLimitMs' # rateLimitMs
       => \E ms \in RateLimitInputs : rateLimitMs' = Clamped(ms)

\* simulateKey called from execute-command hands the action to the executor
\* exactly when the rate limit in force has elapsed
C23_SubmitStep ==
  (IsSubmit /\ ~testMode)
  => ((NewId \in Ids(invocations')) <=> (now - lastCommandTime >= rateLimitMs))

\* the drain loop hands the head of the queue to the executor only when the
\* rate limit in force has elapsed, and otherwise sleeps for what is left of it
C23_DrainStep ==
  /\ (commandQueue # <<>> /\ Head(commandQueue).id \in Ids(invocations'))
       => now - lastCommandTime' >= rateLimitMs
  /\ (drainPc' = "sleep" /\ (drainPc # "sleep" \/ drainWake' # drainWake))
       => /\ now - lastCommandTime' < rateLimitMs
          /\ drainWake' = lastCommandTime' + rateLimitMs

\* C23: setRateLimit(ms) stores min(2000, max(100, ms)), so rateLimitMs is
\* always within [100, 2000], and the stored value is the one the next rate
\* limit check of simulateKey and of the drain loop compares against.
C23_RateLimitClamped ==
  /\ [](rateLimitMs \in RateLimitFloor..RateLimitCeiling)
  /\ [][C23_SetStep /\ C23_SubmitStep /\ C23_DrainStep]_vars

\* setRateLimit(50) has set the rate limit to the floor, and an action queued
\* since was drained less than the default rate limit after the key press
\* before it
C23_Witness ==
  /\ rateLimitMs = RateLimitFloor
  /\ NoExecutorFailure
  /\ \E i \in 2..Len(invocations) :
       /\ invocations[i].via = "drain"
       /\ invocations[i].at - invocations[i - 1].at < DefaultRateLimitMs

InvocationsOf(id) == {i \in 1..Len(invocations) : invocations[i].id = id}

\* the failed entries the history holds for a submitted action
FailuresOf(id) ==
  {n \in 1..Len(commandHistory) :
     commandHistory[n].id = id /\ ~commandHistory[n].success}

\* C25: the executor is asked at most once for every submitted action,
\* immediately or from the queue, and an action whose key press failed has one
\* failed entry in the history and is neither queued nor pressed again.
C25_NoRetry ==
  \A id \in 1..Len(submits) :
    /\ Cardinality(InvocationsOf(id)) <= 1
    /\ submits[id].result \in {"failed", "error"}
         => /\ Cardinality(InvocationsOf(id)) = 1
            /\ Cardinality(FailuresOf(id)) = 1
            /\ id \notin Ids(commandQueue)
            /\ id \notin {call.id : call \in calls}

\* the executor threw on an action executed at once and failed on one taken
\* from the queue, and the drain has gone on to a later action since
C25_Witness ==
  \E a, b, c \in 1..Len(submits) :
    /\ submits[a].result = "error"
    /\ \E i \in InvocationsOf(a) : invocations[i].via = "direct"
    /\ submits[b].result = "failed"
    /\ \E i \in InvocationsOf(b), j \in InvocationsOf(c) :
         invocations[i].via = "drain" /\ i < j

\* a step in which logCommand is called: a call ends in test mode or with the
\* queue full, or a key press ends, or the history changes
LogStep ==
  \/ IsSubmit /\ submits'[NewId].result \in {"test", "dropped"}
  \/ calls' # calls /\ calls' \subseteq calls
  \/ commandHistory' # commandHistory

\* logging puts the entry at the head and keeps the entries before it in
\* their order, without the oldest when the history was full
C26_LogStep ==
  LogStep
  => /\ Len(commandHistory') = Min(Len(commandHistory) + 1, MAX_HISTORY)
     /\ Head(commandHistory') \notin {commandHistory[n] : n \in 1..Len(commandHistory)}
     /\ SubSeq(commandHistory', 2, Len(commandHistory'))
          = SubSeq(commandHistory, 1, Len(commandHistory') - 1)

\* C26: the history never holds more than MAX_HISTORY entries and is ordered
\* newest first; logging an entry into a full history evicts the oldest entry
\* only and keeps the others in order.
C26_HistoryBounded ==
  /\ [](Len(commandHistory) <= MAX_HISTORY)
  /\ [][C26_LogStep]_vars

\* the history is full and has evicted the entry of a call that was logged;
\* it holds a key press, a dropped call and a test mode call
C26_Witness ==
  /\ Len(commandHistory) = MAX_HISTORY
  /\ \E id \in 1..Len(submits) :
       /\ submits[id].result \in {"test", "dropped", "pressed", "failed"}
       /\ id \notin Ids(commandHistory)
  /\ \E n \in 1..Len(commandHistory) : commandHistory[n].kind = "pressed"
  /\ \E n \in 1..Len(commandHistory) : commandHistory[n].kind = "dropped"
  /\ Head(commandHistory).kind = "test"

\* the entries the history holds for a submitted action
EntriesOf(id) == {n \in 1..Len(commandHistory) : commandHistory[n].id = id}

\* the kind of entry logged for a call that returned the given result
KindOf(result) ==
  CASE result = "test"    -> "test"
    [] result = "dropped" -> "dropped"
    [] result = "error"   -> "error"
    [] OTHER              -> "pressed"

\* C27: every call that has ended in an immediate execution, a drop, a test
\* mode success or an execution from the queue has exactly one entry in the
\* history, of the kind of its outcome; a call without an entry is still
\* being pressed or waiting in the queue.
C27_EveryOutcomeLogged ==
  \A id \in 1..Len(submits) :
    IF submits[id].result \in {"pending", "queued"}
    THEN /\ EntriesOf(id) = {}
         /\ id \in Ids(commandQueue) \cup {call.id : call \in calls}
    ELSE /\ Cardinality(EntriesOf(id)) = 1
         /\ \A n \in EntriesOf(id) :
              /\ commandHistory[n].kind = KindOf(submits[id].result)
              /\ commandHistory[n].success = (submits[id].result \in {"test", "pressed"})

\* every call has ended: one was executed at once, one was executed from the
\* queue and one was made in test mode
C27_Witness ==
  /\ \A id \in 1..Len(submits) : submits[id].result \notin {"pending", "queued"}
  /\ \E i \in 1..Len(invocations) :
       invocations[i].via = "direct" /\ submits[invocations[i].id].result = "pressed"
  /\ \E i \in 1..Len(invocations) :
       invocations[i].via = "drain" /\ submits[invocations[i].id].result = "pressed"
  /\ \E id \in 1..Len(submits) : submits[id].result = "test"

\* the k-th alternative has the highest confidence and is the earliest to
\* have it
IsEarliestBest(alternatives, k) ==
  /\ \A j \in 1..Len(alternatives) :
       alternatives[j].confidence <= alternatives[k].confidence
  /\ \A j \in 1..(k - 1) :
       alternatives[j].confidence < alternatives[k].confidence

C28_Step ==
  \A result \in Results \cup RankedResults :
    (result.isFinal /\ HandleResult(result))
    => \E k \in 1..Len(result.alternatives) :
         /\ IsEarliestBest(result.alternatives, k)
         /\ lastTranscript' = result.alternatives[k].transcript
         /\ lastConfidence' = result.alternatives[k].confidence
         /\ lastEvents'[1].transcript = result.alternatives[k].transcript
         /\ lastEvents'[1].confidence = result.alternatives[k].confidence
         /\ Head(commandLog').transcript = result.alternatives[k].transcript

\* C28: of the alternatives of a final result, the one handed to the
\* normalizer and the matcher has the highest confidence, and is the earliest
\* of those that have it.
C28_BestAlternative == [][C28_Step]_vars

\* a final result was handled and 'trn left' at 0.85 was selected, as it is
\* from the alternatives ' Camera One ' 0.78, 'trn left' 0.85, 'banana' 0.85
C28_Witness ==
  /\ handled >= 1
  /\ lastTranscript = TrnLeft
  /\ lastConfidence = 85
  /\ lastEvents[1].transcript = TrnLeft
  /\ lastEvents[1].confidence = 85

\* the key presses that the drain loop is waiting for
DrainCalls == {call \in calls : call.via = "drain"}

\* the drain loop is suspended at exactly one place while the flag is set, and
\* nowhere while it is not
C29_OneLoop ==
  /\ isProcessingQueue <=> drainPc # "idle"
  /\ Cardinality(DrainCalls) = IF drainPc = "exec" THEN 1 ELSE 0
  /\ Cardinality(DrainCalls) + (IF drainPc = "sleep" THEN 1 ELSE 0)
       = IF isProcessingQueue THEN 1 ELSE 0

\* a step in which processQueue is called from outside the drain loop: the
\* timer of a queueCommand fires, or a simulateKey called from execute-command
\* has pressed its key
ProcessQueueCalled ==
  \/ timers' # timers /\ timers' \subseteq timers
  \/ \E call \in calls \ calls' : call.via = "direct"

C29_Step ==
  (isProcessingQueue /\ ProcessQueueCalled)
  => UNCHANGED <<commandQueue, isProcessingQueue, drainPc, drainWake, invocations>>

\* C29: at most one drain loop is active at any time, and a processQueue call
\* made while it is active, from a queueCommand timer or from a completed
\* simulateKey, returns without touching the queue.
C29_SingleDrain == []C29_OneLoop /\ [][C29_Step]_vars

\* the drain has handed one action to the executor and sleeps before the
\* next one; the timers of the queued calls have all fired
C29_Witness ==
  /\ isProcessingQueue
  /\ drainPc = "sleep"
  /\ timers = {}
  /\ commandQueue # <<>>
  /\ Len(Drained) >= 1

\* an action leaves the queue only into the hands of simulateKey, which
\* presses its key; it is not dropped while it waits, and it does not come
\* back once it has left; the drain ends only when the queue is empty
C30_Step ==
  /\ (isProcessingQueue /\ ~isProcessingQueue') => commandQueue' = <<>>
  /\ \A id \in 1..DrainSubmits :
       /\ (id \in Ids(commandQueue) /\ id \notin Ids(commandQueue'))
            => /\ id \in Ids(Drained') \ Ids(Drained)
               /\ Cardinality({i \in 1..Len(invocations') : invocations'[i].id = id}) = 1
       /\ (id \in Ids(commandQueue) /\ id <= Len(submits))
            => submits'[id].result = "queued"
       /\ (id <= Len(submits) /\ id \notin Ids(commandQueue))
            => id \notin Ids(commandQueue')

\* C30: when timers fire and key presses return, every action accepted into
\* the queue is removed from it and handed to simulateKey, once, never
\* queued again and never dropped; and the drain ends with the queue empty
\* and isProcessingQueue false.
C30_QueueDrains ==
  /\ [][C30_Step]_vars
  /\ \A id \in 1..DrainSubmits :
       (id \in Ids(commandQueue)) ~> (id \in Ids(Drained) /\ id \notin Ids(commandQueue))
  /\ (commandQueue # <<>>) ~> (commandQueue = <<>> /\ ~isProcessingQueue /\ drainPc = "idle")

\* two actions were queued and both were pressed by the drain, which has
\* ended: the queue is empty, the flag is off and no timer is pending
C30_Witness ==
  /\ Len(Drained) >= 2
  /\ \A i \in 1..Len(Drained) : submits[Drained[i].id].result \in {"pressed", "failed", "error"}
  /\ commandQueue = <<>>
  /\ ~isProcessingQueue
  /\ drainPc = "idle"
  /\ timers = {}
  /\ calls = {}

\* C31: the queue never holds more than maxQueueSize entries, and the size
\* that getQueueStatus reports never exceeds the maxSize it reports.
C31_QueueBounded ==
  /\ Len(commandQueue) <= MaxQueueSize
  /\ getQueueStatus.size <= getQueueStatus.maxSize

\* the queue is full, a later call was turned away, and the status reports
\* the size equal to the maximum
C31_Witness ==
  /\ getQueueStatus.size = getQueueStatus.maxSize
  /\ \E id \in 1..Len(submits) :
       submits[id].result = "dropped" /\ \A q \in Ids(commandQueue) : q < id

\* C32: key presses are handed to the executor in the order in which their
\* actions were submitted: an action is never pressed before one that was
\* submitted earlier and is still waiting in the queue.
C32_SubmissionOrder ==
  /\ \A i, j \in 1..Len(invocations) :
       i < j => invocations[i].id < invocations[j].id
  /\ \A i \in 1..Len(invocations) : \A q \in Ids(commandQueue) :
       invocations[i].id < q

\* the calls on which the executor throws in this step
Thrown == {call \in calls : /\ submits[call.id].result # "error"
                            /\ submits'[call.id].result = "error"}

\* C33: when the executor throws, simulateKey returns the failure with the
\* error, logs exactly one failed entry for it and leaves lastCommandTime as
\* it was; a call made from execute-command also leaves the queue and the
\* drain as they were. The exception does not reach the caller.
C33_Step ==
  \A call \in Thrown :
    /\ call \notin calls'
    /\ lastCommandTime' = lastCommandTime
    /\ \E n \in 1..Len(commandHistory') :
         commandHistory'[n] = Entry(call.id, call.key, FALSE, "error")
    /\ Cardinality({n \in 1..Len(commandHistory') : commandHistory'[n].id = call.id}) = 1
    /\ call.via = "direct"
         => /\ commandHistory' = <<Entry(call.id, call.key, FALSE, "error")>> \o commandHistory
            /\ UNCHANGED <<commandQueue, isProcessingQueue, timers, drainPc, drainWake,
                           invocations>>

C33_ExecutorThrows == [][C33_Step]_vars

\* the executor threw on a call made from execute-command while an earlier
\* action was waiting in the queue, some time after the last key press
C33_Witness ==
  /\ commandQueue # <<>>
  /\ commandHistory # <<>>
  /\ Head(commandHistory).kind = "error"
  /\ submits[Head(commandHistory).id].result = "error"
  /\ \E i \in 1..Len(invocations) :
       invocations[i].id = Head(commandHistory).id /\ invocations[i].via = "direct"
  /\ lastCommandTime > 0
  /\ lastCommandTime < now

\* the testKey calls that return in this step, each with the lastCommandTime
\* it had saved
TestKeyReturns ==
  {<<id, IF id > Len(submits)
         THEN lastCommandTime
         ELSE (CHOOSE call \in calls : call.id = id).saved>> :
     id \in {i \in 1..Len(submits') :
               /\ submits'[i].op = "testKey"
               /\ submits'[i].result # "pending"
               /\ i <= Len(submits) => submits[i].result = "pending"}}

\* C34: when testKey returns, lastCommandTime is the time of the key press it
\* made or the value it had before the call, and so not the 0 that testKey
\* had put in its place, in test mode too.
C34_Step ==
  \A ret \in TestKeyReturns : lastCommandTime' \in {now, ret[2]}

C34_TestKeyRestores == [][C34_Step]_vars

\* a step in which a speech result is handled
IsResult == handled' = handled + 1

C35_Step ==
  IsResult
  => /\ Len(lastEvents') = 1
     /\ IF lastEvents'[1].type = "interim"
        THEN /\ UNCHANGED <<commandLog, ipc, lastTranscript, lastConfidence>>
             /\ UNCHANGED dispVars
             /\ lastEvents'[1].command = 0
        ELSE /\ lastEvents'[1].type \in {"command", "lowConfidence", "noMatch"}
             /\ Len(commandLog') = Min(Len(commandLog) + 1, CommandLogCap)
             /\ Head(commandLog').transcript = lastEvents'[1].transcript
             /\ Head(commandLog').confidence = lastEvents'[1].confidence
             /\ (Head(commandLog').matched = "null") = (lastEvents'[1].type = "noMatch")
             /\ SubSeq(commandLog', 2, Len(commandLog'))
                  = SubSeq(commandLog, 1, Len(commandLog') - 1)

\* C35: a final speech result emits exactly one of command, lowConfidence and
\* noMatch and puts exactly one entry at the head of the command log, which
\* holds at most 50 entries and loses its oldest when full; an interim result
\* emits the interim event only and changes neither the log nor the
\* dispatcher and sends nothing to it.
C35_OneEventOneEntry ==
  /\ [](Len(commandLog) <= CommandLogCap)
  /\ [][C35_Step]_vars

\* more final results were executed than the command log holds: the log is
\* full and has lost its oldest entries
C35_Witness ==
  /\ Len(commandLog) = CommandLogCap
  /\ Len(ipc) > CommandLogCap
  /\ lastEvents[1].type = "command"
  /\ Head(commandLog).transcript = lastEvents[1].transcript

\* start() and stop() called in a state in which their guard turns them away
C36_Guards ==
  /\ (isListening /\ Start)
       => /\ UNCHANGED <<isListening, recognition, restartAttempts, restartTimers>>
          /\ called' = <<>>
          /\ emitted' = <<>>
  /\ (~isListening /\ Stop)
       => /\ UNCHANGED <<isListening, recognition, restartAttempts, restartTimers>>
          /\ called' = <<>>
          /\ emitted' = <<>>

\* what can be seen of the guards: while the session listens only a restart
\* timer calls the engine's start; while it does not listen nothing calls the
\* engine's stop, and a stop event comes from the engine's end only
C36_Observed ==
  /\ (isListening /\ Called("start")')
       => Len(restartTimers') < Len(restartTimers)
  /\ ~isListening
       => /\ ~Called("stop")'
          /\ Emitted(StopEvent)' => (recognition # "inactive" /\ recognition' = "inactive")

\* start() from Idle: listening, unless the engine's start throws, and then
\* not listening and an error
C36_FromIdle ==
  /\ (~isListening /\ Called("start")') => isListening'
  /\ (~isListening /\ Start)
       => IF recognition \in {"none", "inactive"}
          THEN isListening' /\ called' = <<"start">> /\ emitted' = <<>>
          ELSE ~isListening' /\ called' = <<>>
               /\ emitted' = <<ErrorEvent("start-failed")>>

\* C36: start() while the session listens changes nothing and does not call
\* the engine's start; stop() while it does not listen changes nothing, does
\* not call the engine's stop and emits no stop event; start() from Idle sets
\* listening, and when the engine's start throws it resets listening and emits
\* an error.
C36_LifecycleGuarded == [][C36_Guards /\ C36_Observed /\ C36_FromIdle]_vars

\* start() was called before the engine had ended after a stop(): the
\* engine's start threw, the session does not listen and has emitted an error
C36_Witness ==
  /\ ~isListening
  /\ recognition = "stopping"
  /\ emitted = <<ErrorEvent("start-failed")>>
  /\ called = <<>>

FatalReported ==
  Emitted(ErrorEvent("no-microphone")) \/ Emitted(ErrorEvent("access-denied"))

NoRestart ==
  /\ restartAttempts' = restartAttempts
  /\ restartTimers' = restartTimers
  /\ ~Called("start")'

\* an audio-capture or not-allowed error: an error event, not listening, no
\* restart; the session stays not listening until the engine's end, and that
\* end restarts nothing
C37_Fatal ==
  /\ (\E error \in {"audio-capture", "not-allowed"} : OnError(error))
       => FatalReported' /\ ~isListening' /\ NoRestart
  /\ FatalReported' => ~isListening' /\ recognition' = "ending" /\ NoRestart
  /\ (recognition = "ending" /\ ~isListening)
       => /\ ~isListening'
          /\ restartAttempts' = restartAttempts
          /\ Len(restartTimers') <= Len(restartTimers)
          /\ recognition' = "inactive" => NoRestart

\* a no-speech error: no error event, and a restart only of a listening session
C37_NoSpeech ==
  OnError("no-speech")
    => /\ \A e \in 1..Len(emitted') : emitted'[e].type # "error"
       /\ ~isListening => NoRestart

\* C37: an audio-capture or not-allowed error leaves the session not
\* listening with an error emitted and no restart, for the error and for the
\* end that follows it; a no-speech error emits no error event and restarts
\* only a session that still listens.
C37_ErrorKinds == [][C37_Fatal /\ C37_NoSpeech]_vars

\* the engine's end that follows an error for which a restart is pending
EndAfterError ==
  /\ recognition = "ending"
  /\ recognition' = "inactive"
  /\ restartTimers # <<>>

\* C38: at most one restart timer is pending at any time, and the end that
\* follows an error of the same disconnect consumes no further restart
\* attempt and schedules no further timer.
C38_OneRestartPerDisconnect ==
  /\ [](Len(restartTimers) <= 1)
  /\ [][EndAfterError => /\ restartAttempts' = restartAttempts
                         /\ restartTimers' = restartTimers]_vars

\* the phrases in the order in which _matchCommand visits them
PhrasePositions ==
  {<<c, k>> \in (1..Len(sortedCommands)) \X (1..12) :
     k <= Len(VOICE_COMMANDS[sortedCommands[c]].phrases)}
PhraseAt(pos) == VOICE_COMMANDS[sortedCommands[pos[1]]].phrases[pos[2]]
Earlier(p, q) == p[1] < q[1] \/ (p[1] = q[1] /\ p[2] < q[2])

\* the shortest phrase of the first command in priority order
ShortestOfFirst ==
  LET phrases == VOICE_COMMANDS[sortedCommands[1]].phrases
      k == CHOOSE i \in 1..Len(phrases) :
             \A j \in 1..Len(phrases) :
               Len(phrases[i]) < Len(phrases[j])
                 \/ (Len(phrases[i]) = Len(phrases[j]) /\ i <= j)
  IN  <<1, k>>

\* the shortest phrase of the registry, the first one visited among the
\* shortest
ShortestOfAll ==
  CHOOSE p \in PhrasePositions :
    \A q \in PhrasePositions :
      \/ p = q
      \/ Len(PhraseAt(p)) < Len(PhraseAt(q))
      \/ (Len(PhraseAt(p)) = Len(PhraseAt(q)) /\ Earlier(p, q))

\* the matcher has answered for a text that normalizes to the empty string,
\* at a confidence at or above the low floor
BlankAnswered ==
  /\ answer.matched
  /\ answer.text = <<>>
  /\ probe.confidence >= options.lowConfidenceThreshold

\* the candidate for phrase pos
Candidate(result, pos) ==
  /\ result.found
  /\ result.command = sortedCommands[pos[1]]
  /\ result.matchedPhrase = PhraseAt(pos)
  /\ result.score = Len(PhraseAt(pos))

\* a step of _handleResult for a final transcript that normalizes to the empty
\* string, at a confidence at or above the execute threshold
BlankHandled ==
  /\ handled' = handled + 1
  /\ Normalize(lastTranscript') = <<>>
  /\ lastConfidence' >= getThreshold(options)

Dispatched(pos) ==
  /\ lastEvents'[1].type = "command"
  /\ lastEvents'[1].command = sortedCommands[pos[1]]
  /\ lastEvents'[1].matchedPhrase = PhraseAt(pos)
  /\ ipc' = Append(ipc, VOICE_COMMANDS[sortedCommands[pos[1]]].key)

\* C39 as stated: for a transcript that normalizes to the empty string at a
\* confidence at or above the low floor the matcher returns the shortest
\* phrase of the first command in priority order, with the length of that
\* phrase as score, and at a confidence at or above the execute threshold the
\* action of that command is dispatched.
C39_BlankMatchesFirstCommand ==
  /\ [](BlankAnswered => Candidate(answer.result, ShortestOfFirst))
  /\ [][BlankHandled => Dispatched(ShortestOfFirst)]_vars

\* C39, amended: for a transcript that normalizes to the empty string at a
\* confidence at or above the low floor the matcher returns the shortest
\* phrase of the whole registry, the first one in the order of the search
\* among the shortest, with the length of that phrase as score, and at a
\* confidence at or above the execute threshold the action of its command is
\* dispatched.
C39_BlankMatchesShortest ==
  /\ [](BlankAnswered => Candidate(answer.result, ShortestOfAll))
  /\ [][BlankHandled => Dispatched(ShortestOfAll)]_vars

\* the matcher has answered for the blank transcript, and the session has
\* dispatched the key of the shortest phrase for a blank transcript and main
\* has taken it
C39_Witness ==
  /\ BlankAnswered
  /\ probe.text = Blank
  /\ answer.result.matchedPhrase = <<"l","e","f","t">>
  /\ lastTranscript = Blank
  /\ lastEvents # <<>>
  /\ lastEvents[1].type = "command"
  /\ ipc = <<>>
  /\ submits # <<>>

\* C40: once every set-trainer-mode message has been handled by main, the
\* trainerMode flag the session's gate reads (VoiceRecognition.options) is the
\* trainerMode of main's voiceSettings, whichever entry point switched it.
C40_OneTrainerMode ==
  settingsIpc = <<>> => options.trainerMode = voiceSettings.trainerMode

====
